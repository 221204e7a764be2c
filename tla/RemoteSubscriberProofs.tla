----------------------- MODULE RemoteSubscriberProofs -----------------------
(***************************************************************************)
(* Theorems about RemoteSubscriber, for every set of owners, interests and *)
(* environments and every chain: the subscriber's mirror follows the row.  *)
(***************************************************************************)
EXTENDS RemoteSubscriber, WellFoundedInduction, TLAPS

(***************************************************************************)
(* Topologies                                                              *)
(***************************************************************************)
OptBackfill == SubscriberBackfill \cup {None}
Registration == [interests : SUBSET Interest, backfill : OptBackfill]

IsTopology(t) ==
    /\ t = [base |-> t.base, global |-> t.global, owners |-> t.owners]
    /\ t.base \subseteq Interest /\ t.global \in OptBackfill
    /\ DOMAIN t.owners \subseteq Owner
    /\ t.owners \in [DOMAIN t.owners -> Registration]

LEMMA TopologiesEqual ==
    ASSUME NEW t, IsTopology(t), NEW u, IsTopology(u),
           t.base = u.base, t.global = u.global, DOMAIN t.owners = DOMAIN u.owners,
           \A o \in DOMAIN t.owners : /\ t.owners[o].interests = u.owners[o].interests
                                      /\ t.owners[o].backfill = u.owners[o].backfill
    PROVE  t = u
<1>1. ASSUME NEW o \in DOMAIN t.owners PROVE t.owners[o] = u.owners[o]
  <2>1. t.owners[o] \in Registration /\ u.owners[o] \in Registration
    BY DEF IsTopology
  <2> QED
    BY <2>1 DEF Registration
<1>2. t.owners = u.owners
  BY <1>1 DEF IsTopology
<1> QED
  BY <1>2 DEF IsTopology

LEMMA RemainingTyped ==
    ASSUME NEW b \in OptBackfill, NEW cursor
    PROVE  RemainingBackfill(b, cursor) \in OptBackfill
  BY DEF RemainingBackfill, OptBackfill

LEMMA CompletedFields ==
    ASSUME NEW t, IsTopology(t), NEW cursor
    PROVE  LET u == CompletedTopology(t, cursor) IN
           /\ IsTopology(u)
           /\ u.base = t.base /\ u.global = RemainingBackfill(t.global, cursor)
           /\ DOMAIN u.owners = DOMAIN t.owners
           /\ \A o \in DOMAIN t.owners :
                 /\ u.owners[o].interests = t.owners[o].interests
                 /\ u.owners[o].backfill = RemainingBackfill(t.owners[o].backfill, cursor)
<1> DEFINE owners == [o \in DOMAIN t.owners |->
                        [interests |-> t.owners[o].interests,
                         backfill |-> RemainingBackfill(t.owners[o].backfill, cursor)]]
           u == CompletedTopology(t, cursor)
<1>1. u = [base |-> t.base, global |-> RemainingBackfill(t.global, cursor), owners |-> owners]
  BY DEF CompletedTopology
<1>2. ASSUME NEW o \in DOMAIN t.owners
      PROVE  /\ owners[o] \in Registration
             /\ owners[o].interests = t.owners[o].interests
             /\ owners[o].backfill = RemainingBackfill(t.owners[o].backfill, cursor)
  <2>1. t.owners[o] \in Registration
    BY DEF IsTopology
  <2>2. t.owners[o].interests \in SUBSET Interest /\ t.owners[o].backfill \in OptBackfill
    BY <2>1 DEF Registration
  <2>3. RemainingBackfill(t.owners[o].backfill, cursor) \in OptBackfill
    BY <2>2, RemainingTyped
  <2> QED
    BY <2>2, <2>3 DEF Registration
<1>3. DOMAIN owners = DOMAIN t.owners /\ owners \in [DOMAIN t.owners -> Registration]
  BY <1>2, Zenon
<1>4. RemainingBackfill(t.global, cursor) \in OptBackfill
  BY RemainingTyped DEF IsTopology
<1> HIDE DEF u, owners
<1>5. u.base = t.base /\ u.global = RemainingBackfill(t.global, cursor) /\ u.owners = owners
  BY <1>1
<1>6. IsTopology(u)
  BY <1>1, <1>3, <1>4, <1>5 DEF IsTopology
<1> QED
  BY <1>2, <1>3, <1>5, <1>6 DEF u

\* What a cursor has completed it does not complete again.
LEMMA CompletedTwice ==
    ASSUME NEW t, IsTopology(t), NEW cursor
    PROVE  CompletedTopology(CompletedTopology(t, cursor), cursor) = CompletedTopology(t, cursor)
<1> DEFINE u == CompletedTopology(t, cursor)
           v == CompletedTopology(u, cursor)
<1>1. /\ IsTopology(u) /\ u.global = RemainingBackfill(t.global, cursor)
      /\ DOMAIN u.owners = DOMAIN t.owners
      /\ \A o \in DOMAIN t.owners :
            u.owners[o].backfill = RemainingBackfill(t.owners[o].backfill, cursor)
  BY CompletedFields
<1> HIDE DEF u
<1>2. /\ IsTopology(v) /\ v.base = u.base /\ v.global = RemainingBackfill(u.global, cursor)
      /\ DOMAIN v.owners = DOMAIN u.owners
      /\ \A o \in DOMAIN u.owners :
            /\ v.owners[o].interests = u.owners[o].interests
            /\ v.owners[o].backfill = RemainingBackfill(u.owners[o].backfill, cursor)
  BY <1>1, CompletedFields
<1> HIDE DEF v
<1>3. ASSUME NEW b PROVE RemainingBackfill(RemainingBackfill(b, cursor), cursor)
                         = RemainingBackfill(b, cursor)
  BY DEF RemainingBackfill
<1>4. v = u
  BY <1>1, <1>2, <1>3, TopologiesEqual
<1> QED
  BY <1>4 DEF u, v

LEMMA BackfillRoundTrip ==
    ASSUME NEW b \in OptBackfill
    PROVE  DecodeAuthoritativeBackfill(EncodeBackfill(b)) = b
<1>1. CASE b = None
  BY <1>1 DEF EncodeBackfill, DecodeAuthoritativeBackfill
<1>2. CASE b # None
  <2>1. b \in SubscriberBackfill
    BY <1>2 DEF OptBackfill
  <2>2. /\ b = [start |-> b.start, end |-> b.end, anchor |-> b.anchor]
        /\ b.start \in Nat /\ b.end \in Nat \cup {None} /\ b.anchor \in OptBlock
    BY <2>1 DEF SubscriberBackfill
  <2> DEFINE to == IF b.end = None THEN None ELSE b.end + 1
             w == [from |-> b.start, to |-> to, baseline |-> b.anchor]
  <2>3. to \in Nat \cup {None} /\ (to = None <=> b.end = None)
        /\ (b.end # None => to - 1 = b.end)
    BY <2>2, ChainAssumption
  <2>4. EncodeBackfill(b) = w
    BY <1>2 DEF EncodeBackfill
  <2> HIDE DEF to
  <2>5. w \in WireBackfill /\ w.from = b.start /\ w.to = to /\ w.baseline = b.anchor
    BY <2>2, <2>3 DEF WireBackfill
  <2> HIDE DEF w
  <2>6. w # None
    BY <2>5, SubscriberAssumption
  <2> QED
    BY <2>2, <2>3, <2>4, <2>5, <2>6 DEF DecodeAuthoritativeBackfill
<1> QED
  BY <1>1, <1>2

\* What the service is asked for is what the subscriber will be mirroring:
\* decoding the desired state of a topology gives the topology back.
LEMMA DecodesBuilt ==
    ASSUME NEW t, IsTopology(t), NEW revision
    PROVE  DecodeAuthoritativeDesiredState(BuildDesiredState(revision, t)) = t
<1> DEFINE request == BuildDesiredState(revision, t)
           own == {[id |-> o, interests |-> t.owners[o].interests,
                    backfill |-> EncodeBackfill(t.owners[o].backfill)] : o \in DOMAIN t.owners}
           canonical == [id |-> None, interests |-> t.base, backfill |-> EncodeBackfill(t.global)]
           ids == {e.id : e \in request.owners}
           u == DecodeAuthoritativeDesiredState(request)
<1>1. request.owners = own \cup (IF HasCanonicalEntry(t) THEN {canonical} ELSE {})
  BY DEF BuildDesiredState
<1>2. None \notin DOMAIN t.owners
  BY SubscriberAssumption DEF IsTopology
<1>3. ASSUME NEW o \in DOMAIN t.owners
      PROVE  /\ o \in ids \ {None} /\ Entry(request, o).interests = t.owners[o].interests
             /\ Entry(request, o).backfill = EncodeBackfill(t.owners[o].backfill)
  <2> DEFINE e == [id |-> o, interests |-> t.owners[o].interests,
                   backfill |-> EncodeBackfill(t.owners[o].backfill)]
  <2>1. e \in request.owners /\ e.id = o
    BY <1>1
  <2>2. \A f \in request.owners : f.id = o => f = e
    BY <1>1, <1>2
  <2> HIDE DEF e, request
  <2>3. Entry(request, o) = e
    BY <2>1, <2>2 DEF Entry
  <2> QED
    BY <1>2, <2>1, <2>3 DEF e
<1>4. \A i \in ids \ {None} : i \in DOMAIN t.owners
  BY <1>1
<1>5. ids \ {None} = DOMAIN t.owners
  BY <1>3, <1>4
<1>6. /\ (IF None \in ids THEN Entry(request, None).interests ELSE {}) = t.base
      /\ (IF None \in ids THEN DecodeAuthoritativeBackfill(Entry(request, None).backfill)
          ELSE None) = t.global
  <2>1. CASE HasCanonicalEntry(t)
    <3>1. canonical \in request.owners /\ \A f \in request.owners : f.id = None => f = canonical
      BY <1>1, <1>2, <2>1
    <3> HIDE DEF request
    <3>2. Entry(request, None) = canonical /\ None \in ids
      BY <3>1 DEF Entry
    <3>3. DecodeAuthoritativeBackfill(EncodeBackfill(t.global)) = t.global
      BY BackfillRoundTrip DEF IsTopology
    <3> QED
      BY <3>2, <3>3
  <2>2. CASE ~HasCanonicalEntry(t)
    <3>1. None \notin ids
      BY <1>1, <1>2, <2>2
    <3> QED
      BY <3>1, <2>2 DEF HasCanonicalEntry
  <2> QED
    BY <2>1, <2>2
<1>7. ASSUME NEW o \in DOMAIN t.owners
      PROVE  /\ DecodeAuthoritativeBackfill(Entry(request, o).backfill) = t.owners[o].backfill
             /\ t.owners[o] = [interests |-> t.owners[o].interests,
                               backfill |-> t.owners[o].backfill]
  <2>1. t.owners[o] \in Registration
    BY DEF IsTopology
  <2>2. DecodeAuthoritativeBackfill(EncodeBackfill(t.owners[o].backfill)) = t.owners[o].backfill
    BY <2>1, BackfillRoundTrip DEF Registration
  <2> QED
    BY <1>3, <2>1, <2>2 DEF Registration
<1> DEFINE owners == [o \in ids \ {None} |->
                        [interests |-> Entry(request, o).interests,
                         backfill |-> DecodeAuthoritativeBackfill(Entry(request, o).backfill)]]
<1>8. u = [base |-> IF None \in ids THEN Entry(request, None).interests ELSE {},
           global |-> IF None \in ids
                      THEN DecodeAuthoritativeBackfill(Entry(request, None).backfill) ELSE None,
           owners |-> owners]
  BY DEF DecodeAuthoritativeDesiredState
<1> HIDE DEF request, ids
<1>9. owners = t.owners
  BY <1>3, <1>5, <1>7, Zenon DEF IsTopology
<1> HIDE DEF owners, u
<1>10. u = t
  BY <1>6, <1>8, <1>9 DEF IsTopology
<1> QED
  BY <1>10 DEF u, request

(***************************************************************************)
(* The inductive invariant, of the subscriber s, the row r and the number  *)
(* n up to which the revision was acknowledged                             *)
(***************************************************************************)
IsRow(r) ==
    r = [revision |-> r.revision, desired |-> r.desired, acked |-> r.acked,
         runtime |-> r.runtime, pending |-> r.pending, activation |-> r.activation, tip |-> r.tip]

IsSubscriber(s) ==
    s = [rev |-> s.rev, topology |-> s.topology, candidate |-> s.candidate, neutral |-> s.neutral,
         acked |-> s.acked, cursor |-> s.cursor, delivered |-> s.delivered, dcursor |-> s.dcursor,
         acking |-> s.acking]

AtRevision(r) == r.acked # None /\ r.acked.rev = r.revision

\* The outbox continues the acknowledged position, within the boundary that
\* the activation of the revision fixed.
RowOK(r, n) ==
    /\ IsRow(r) /\ r.revision \in Nat /\ n \in Nat
    /\ r.acked \in Cursor \cup {None}
    /\ r.acked # None => r.acked.rev <= r.revision
    /\ AtRevision(r) => r.acked.next <= n
    /\ r.pending # None =>
          /\ r.pending.cursor \in Cursor /\ r.pending.cursor.rev = r.revision
          /\ r.pending.rev = r.revision
          /\ r.pending.seq = NextSequence(r) /\ r.pending.cursor.seq = r.pending.seq
          /\ AtRevision(r) => r.pending.cursor.boundary = r.acked.boundary
    /\ r.desired # None => IsTopology(DecodeAuthoritativeDesiredState(r.desired))

\* What the subscriber has not seen acknowledged is in the outbox, or was the
\* last to leave it.
LagOK(s, r) ==
    /\ s.neutral # None =>
          /\ s.neutral.cursor \in Cursor /\ s.neutral.cursor.seq = s.neutral.seq
          /\ r.pending = s.neutral \/ r.acked = s.neutral.cursor
    /\ s.dcursor # None =>
          /\ s.dcursor.seq = s.delivered
          /\ (r.pending # None /\ r.pending.cursor = s.dcursor) \/ r.acked = s.dcursor
          /\ s.neutral # None => s.neutral.seq = s.delivered

\* The subscriber's cursor is of its own revision or an earlier one.
CursorOK(s, r, n) ==
    s.cursor # None =>
        /\ s.cursor \in Cursor /\ s.cursor.rev <= s.rev
        /\ s.cursor.rev = r.revision =>
              AtRevision(r) /\ s.cursor.boundary = r.acked.boundary /\ s.cursor.next <= n

\* A candidate asks for the successor of the mirror, which has no backfill in
\* progress unless the candidate replaces everything.
CandidateOK(s) ==
    s.candidate # None =>
        /\ IsTopology(s.candidate.topology)
        /\ s.candidate.request = BuildDesiredState(s.rev, s.candidate.topology)
        /\ HasIncompleteBackfill(s.topology) => s.candidate.supersedes

\* The mirror is at the row's revision, or one behind it with the candidate
\* that became that revision.
RevisionOK(s, r) ==
    \/ s.rev = r.revision
    \/ s.candidate # None /\ r.revision = s.rev + 1 /\ r.desired = s.candidate.request

CoveredBy(b, r, n) == BackfillTarget(b, r.acked) # None /\ n >= BackfillTarget(b, r.acked)

\* A backfill is left out of the mirror only when it was acknowledged to its
\* end.
Slot(b, asked, r, n) == b = asked \/ (b = None /\ AtRevision(r) /\ CoveredBy(asked, r, n))

Within(t, asked, r, n) ==
    /\ t.base = asked.base /\ DOMAIN t.owners = DOMAIN asked.owners
    /\ Slot(t.global, asked.global, r, n)
    /\ \A o \in DOMAIN t.owners :
          /\ t.owners[o].interests = asked.owners[o].interests
          /\ Slot(t.owners[o].backfill, asked.owners[o].backfill, r, n)

MirrorOK(s, r, n) ==
    /\ IsTopology(s.topology)
    /\ s.rev = r.revision =>
          IF r.desired = None THEN s.topology = NoTopology
          ELSE Within(s.topology, DecodeAuthoritativeDesiredState(r.desired), r, n)

UnsettledOK(s, r, n) ==
    /\ IsSubscriber(s) /\ s.rev \in Nat
    /\ RowOK(r, n) /\ LagOK(s, r) /\ CursorOK(s, r, n)
    /\ CandidateOK(s) /\ RevisionOK(s, r) /\ MirrorOK(s, r, n)

\* What the cursor completes is complete.
Settled(s) ==
    s.cursor # None /\ s.cursor.rev = s.rev =>
        CompletedTopology(s.topology, s.cursor) = s.topology

SubscriberOK(s, r, n) == UnsettledOK(s, r, n) /\ Settled(s)

SubscriberInv == env \in Environments /\ SubscriberOK(sub, row, reach)

-----------------------------------------------------------------------------
LEMMA EmptyTopology == IsTopology(NoTopology)
  BY DEF IsTopology, NoTopology, NoOwners, OptBackfill

LEMMA SlotCompletes ==
    ASSUME NEW s, NEW r, NEW n, RowOK(r, n), CursorOK(s, r, n),
           s.cursor # None, s.cursor.rev = r.revision,
           NEW asked \in OptBackfill, NEW b \in OptBackfill, Slot(b, asked, r, n)
    PROVE  Slot(RemainingBackfill(b, s.cursor), asked, r, n)
<1>1. /\ AtRevision(r) /\ s.cursor.boundary = r.acked.boundary
      /\ s.cursor.next \in Nat /\ s.cursor.next <= n /\ n \in Nat
      /\ s.cursor.boundary \in Nat \cup {None}
  BY DEF CursorOK, RowOK, Cursor
<1>2. CASE RemainingBackfill(b, s.cursor) = b
  BY <1>2
<1>3. CASE RemainingBackfill(b, s.cursor) # b
  <2>1. /\ b # None /\ RemainingBackfill(b, s.cursor) = None
        /\ BackfillTarget(b, s.cursor) # None /\ s.cursor.next >= BackfillTarget(b, s.cursor)
    BY <1>3 DEF RemainingBackfill
  <2>2. b \in SubscriberBackfill /\ b = asked
    BY <2>1 DEF OptBackfill, Slot
  <2>3. BackfillTarget(b, s.cursor) = BackfillTarget(b, r.acked)
    BY <1>1 DEF BackfillTarget
  <2>4. BackfillTarget(b, s.cursor) \in Nat
    BY <1>1, <2>1, <2>2 DEF BackfillTarget, SubscriberBackfill
  <2>5. n >= BackfillTarget(b, r.acked)
    BY <1>1, <2>1, <2>3, <2>4
  <2> QED
    BY <1>1, <2>1, <2>2, <2>3, <2>5 DEF Slot, CoveredBy
<1> QED
  BY <1>2, <1>3

\* maybe_complete_backfill keeps the mirror within what the service has.
LEMMA CompletingSettles ==
    ASSUME NEW s, NEW r, NEW n, UnsettledOK(s, r, n), s.candidate = None
    PROVE  SubscriberOK(MaybeCompleteBackfill(s), r, n)
<1>0. s.rev = r.revision
  BY DEF UnsettledOK, RevisionOK
<1>1. CASE s.cursor = None \/ s.cursor.rev # s.rev
  BY <1>1 DEF MaybeCompleteBackfill, SubscriberOK, Settled
<1>2. CASE s.cursor # None /\ s.cursor.rev = s.rev
  <2> DEFINE u == CompletedTopology(s.topology, s.cursor)
             x == [s EXCEPT !.topology = u]
             asked == DecodeAuthoritativeDesiredState(r.desired)
  <2>1. MaybeCompleteBackfill(s) = x
    BY <1>2 DEF MaybeCompleteBackfill
  <2>2. /\ IsSubscriber(x) /\ x.rev = s.rev /\ x.topology = u /\ x.candidate = None
        /\ x.neutral = s.neutral /\ x.cursor = s.cursor /\ x.delivered = s.delivered
        /\ x.dcursor = s.dcursor
    BY DEF UnsettledOK, IsSubscriber
  <2>3. /\ IsTopology(u) /\ u.base = s.topology.base
        /\ u.global = RemainingBackfill(s.topology.global, s.cursor)
        /\ DOMAIN u.owners = DOMAIN s.topology.owners
        /\ \A o \in DOMAIN s.topology.owners :
              /\ u.owners[o].interests = s.topology.owners[o].interests
              /\ u.owners[o].backfill = RemainingBackfill(s.topology.owners[o].backfill, s.cursor)
    BY CompletedFields DEF UnsettledOK, MirrorOK
  <2>4. CompletedTopology(u, s.cursor) = u
    BY CompletedTwice, Zenon DEF UnsettledOK, MirrorOK
  <2> HIDE DEF u, x
  <2>5. CASE r.desired = None
    <3>1. u = NoTopology
      <4>1. s.topology = NoTopology
        BY <1>0, <2>5, Zenon DEF UnsettledOK, MirrorOK
      <4>2. u.base = NoTopology.base /\ u.global = NoTopology.global
            /\ DOMAIN u.owners = DOMAIN NoTopology.owners /\ DOMAIN u.owners = {}
        <5>1. NoTopology.base = {} /\ NoTopology.global = None /\ DOMAIN NoTopology.owners = {}
          BY DEF NoTopology, NoOwners
        <5>2. RemainingBackfill(None, s.cursor) = None
          BY Zenon DEF RemainingBackfill
        <5> QED
          BY <2>3, <4>1, <5>1, <5>2, Zenon
      <4> QED
        BY <2>3, <4>2, EmptyTopology, TopologiesEqual, Zenon
    <3> QED
      BY <1>0, <2>1, <2>2, <2>3, <2>4, <2>5, <3>1
      DEF SubscriberOK, Settled, UnsettledOK, LagOK, CursorOK, CandidateOK, RevisionOK, MirrorOK
  <2>6. CASE r.desired # None
    <3>1. Within(s.topology, asked, r, n) /\ IsTopology(asked) /\ IsTopology(s.topology)
      BY <1>0, <2>6, Zenon DEF UnsettledOK, MirrorOK, RowOK
    <3>2. Slot(u.global, asked.global, r, n)
      <4>1. s.topology.global \in OptBackfill /\ asked.global \in OptBackfill
        BY <3>1 DEF IsTopology
      <4>2. Slot(s.topology.global, asked.global, r, n)
        BY <3>1, Zenon DEF Within
      <4> QED
        BY <1>0, <1>2, <2>3, <4>1, <4>2, SlotCompletes DEF UnsettledOK
    <3>3. ASSUME NEW o \in DOMAIN u.owners
          PROVE  Slot(u.owners[o].backfill, asked.owners[o].backfill, r, n)
      <4>1. o \in DOMAIN s.topology.owners /\ o \in DOMAIN asked.owners
        BY <2>3, <3>1 DEF Within
      <4>2. s.topology.owners[o] \in Registration /\ asked.owners[o] \in Registration
        BY <3>1, <4>1 DEF IsTopology
      <4>3. /\ s.topology.owners[o].backfill \in OptBackfill
            /\ asked.owners[o].backfill \in OptBackfill
        BY <4>2, Zenon DEF Registration
      <4>4. Slot(s.topology.owners[o].backfill, asked.owners[o].backfill, r, n)
        BY <3>1, <4>1 DEF Within
      <4> QED
        BY <1>0, <1>2, <2>3, <4>1, <4>3, <4>4, SlotCompletes, Zenon DEF UnsettledOK
    <3>4. Within(u, asked, r, n)
      BY <2>3, <3>1, <3>2, <3>3, Zenon DEF Within
    <3> QED
      BY <1>0, <2>1, <2>2, <2>3, <2>4, <2>6, <3>4
      DEF SubscriberOK, Settled, UnsettledOK, LagOK, CursorOK, CandidateOK, RevisionOK, MirrorOK
  <2> QED
    BY <2>5, <2>6
<1> QED
  BY <1>1, <1>2

(***************************************************************************)
(* How the row moves                                                       *)
(***************************************************************************)
\* A slot stays what it is when more is acknowledged within the boundary.
LEMMA WithinGrows ==
    ASSUME NEW t, NEW asked, NEW r, NEW n \in Nat, NEW r2, NEW m \in Nat, IsTopology(asked),
           Within(t, asked, r, n), n <= m, r.acked \in Cursor \cup {None},
           AtRevision(r) => AtRevision(r2) /\ r2.acked.boundary = r.acked.boundary
    PROVE  Within(t, asked, r2, m)
<1>1. ASSUME NEW b, NEW c \in OptBackfill, Slot(b, c, r, n) PROVE Slot(b, c, r2, m)
  <2>1. CASE b = c
    BY <2>1 DEF Slot
  <2>2. CASE b # c
    <3>1. b = None /\ AtRevision(r) /\ CoveredBy(c, r, n) /\ c \in SubscriberBackfill
      BY <1>1, <2>2 DEF Slot, OptBackfill
    <3>2. AtRevision(r2) /\ BackfillTarget(c, r2.acked) = BackfillTarget(c, r.acked)
      BY <3>1 DEF BackfillTarget
    <3>3. r.acked.boundary \in Nat \cup {None} /\ c.end \in Nat \cup {None}
      BY <3>1 DEF AtRevision, Cursor, SubscriberBackfill
    <3>4. BackfillTarget(c, r.acked) \in Nat \cup {None}
      BY <3>3 DEF BackfillTarget
    <3>5. CoveredBy(c, r2, m)
      BY <3>1, <3>2, <3>4 DEF CoveredBy
    <3> QED
      BY <3>1, <3>2, <3>5 DEF Slot
  <2> QED
    BY <2>1, <2>2
<1>2. Slot(t.global, asked.global, r2, m)
  BY <1>1 DEF Within, IsTopology
<1>3. ASSUME NEW o \in DOMAIN t.owners
      PROVE  Slot(t.owners[o].backfill, asked.owners[o].backfill, r2, m)
  <2>1. asked.owners[o] \in Registration /\ Slot(t.owners[o].backfill, asked.owners[o].backfill, r, n)
    BY Zenon DEF Within, IsTopology
  <2> QED
    BY <1>1, <2>1 DEF Registration
<1> QED
  BY <1>2, <1>3, Zenon DEF Within

LEMMA RowSaves ==
    ASSUME NEW s, NEW r, NEW n, SubscriberOK(s, r, n), NEW d, r.pending = None, r.acked # None,
           d.cursor \in Cursor, d.rev = r.revision, d.cursor.rev = r.revision,
           d.seq = NextSequence(r), d.cursor.seq = d.seq, d.cursor.boundary = r.acked.boundary
    PROVE  SubscriberOK(s, SaveRow(r, d), n)
<1> DEFINE r2 == SaveRow(r, d)
<1>1. /\ IsRow(r2) /\ r2.revision = r.revision /\ r2.desired = r.desired /\ r2.acked = r.acked
      /\ r2.pending = d
  BY DEF SubscriberOK, UnsettledOK, RowOK, IsRow, SaveRow
<1> HIDE DEF r2
<1>2. (AtRevision(r2) <=> AtRevision(r)) /\ NextSequence(r2) = NextSequence(r)
  BY <1>1, Zenon DEF AtRevision, NextSequence, AckedSequence
<1>3. RowOK(r2, n)
  BY <1>1, <1>2, Zenon DEF SubscriberOK, UnsettledOK, RowOK
<1>4. LagOK(s, r2) /\ CursorOK(s, r2, n) /\ RevisionOK(s, r2)
  BY <1>1, <1>2, Zenon DEF SubscriberOK, UnsettledOK, LagOK, CursorOK, RevisionOK
<1>5. MirrorOK(s, r2, n)
  <2>1. CASE s.rev = r.revision /\ r.desired # None
    <3>1. Within(s.topology, DecodeAuthoritativeDesiredState(r.desired), r, n)
          /\ IsTopology(DecodeAuthoritativeDesiredState(r.desired))
          /\ n \in Nat /\ n <= n /\ r.acked \in Cursor \cup {None}
      BY <2>1 DEF SubscriberOK, UnsettledOK, MirrorOK, RowOK
    <3>2. Within(s.topology, DecodeAuthoritativeDesiredState(r.desired), r2, n)
      BY <1>1, <1>2, <3>1, WithinGrows
    <3> QED
      BY <1>1, <2>1, <3>2, Zenon DEF SubscriberOK, UnsettledOK, MirrorOK
  <2>2. CASE ~(s.rev = r.revision /\ r.desired # None)
    BY <1>1, <2>2 DEF SubscriberOK, UnsettledOK, MirrorOK
  <2> QED
    BY <2>1, <2>2, Zenon
<1> QED
  BY <1>3, <1>4, <1>5 DEF SubscriberOK, UnsettledOK, r2

LEMMA MaxOfTwo ==
    ASSUME NEW i \in Nat, NEW j \in Nat
    PROVE  Max({i, j}) \in Nat /\ i <= Max({i, j}) /\ j <= Max({i, j})
<1>1. \E x \in {i, j} : \A y \in {i, j} : x >= y
  OBVIOUS
<1>2. Max({i, j}) \in {i, j} /\ \A y \in {i, j} : Max({i, j}) >= y
  BY <1>1, Zenon DEF Max
<1> QED
  BY <1>2

\* The acknowledged sequence is the subscriber's own last one.
LEMMA RowAcks ==
    ASSUME NEW s, NEW r, NEW n, SubscriberOK(s, r, n), NEW seq,
           r.pending # None, r.pending.seq = seq,
           s.neutral # None => seq = s.neutral.seq,
           s.neutral = None => seq = s.delivered
    PROVE  LET m == Max({r.pending.cursor.next, IF r.pending.rev = r.revision THEN n ELSE 0})
               r2 == AckRow(r)
           IN  /\ SubscriberOK(s, r2, m) /\ r2.acked = r.pending.cursor
               /\ s.neutral # None => r2.acked = s.neutral.cursor
               /\ s.dcursor # None => r2.acked = s.dcursor
<1> DEFINE m == Max({r.pending.cursor.next, IF r.pending.rev = r.revision THEN n ELSE 0})
           r2 == AckRow(r)
           d == r.pending
<1>1. RowOK(r, n) /\ LagOK(s, r) /\ CursorOK(s, r, n) /\ RevisionOK(s, r) /\ MirrorOK(s, r, n)
  BY Zenon DEF SubscriberOK, UnsettledOK
<1>2. /\ d.cursor \in Cursor /\ d.cursor.rev = r.revision /\ d.rev = r.revision
      /\ d.seq = NextSequence(r) /\ d.cursor.seq = d.seq
      /\ AtRevision(r) => d.cursor.boundary = r.acked.boundary
      /\ IsRow(r) /\ r.revision \in Nat /\ n \in Nat /\ r.acked \in Cursor \cup {None}
      /\ r.acked # None => r.acked.rev <= r.revision
      /\ AtRevision(r) => r.acked.next <= n
  BY <1>1 DEF RowOK
<1>3. d.cursor.next \in Nat /\ d.cursor.seq \in Nat
  BY <1>2 DEF Cursor
<1>4. m \in Nat /\ d.cursor.next <= m /\ n <= m
  <2>1. m = Max({d.cursor.next, n})
    BY <1>2
  <2> QED
    BY <1>2, <1>3, <2>1, MaxOfTwo
<1>5. /\ IsRow(r2) /\ r2.revision = r.revision /\ r2.desired = r.desired /\ r2.acked = d.cursor
      /\ r2.pending = None
  <2> DEFINE runtimeCursor == IF d.neutral THEN r.runtime ELSE d.cursor
             tip == ExpectedReorgTipAfterAck(r.tip, d)
  <2>1. r2 = [r EXCEPT !.acked = d.cursor, !.runtime = runtimeCursor, !.pending = None, !.tip = tip]
    BY DEF AckRow
  <2> HIDE DEF r2, d, runtimeCursor, tip
  <2> QED
    BY <1>2, <2>1, Zenon DEF IsRow
<1>6. d.cursor # None
  BY <1>2, SubscriberAssumption, Zenon
<1> HIDE DEF m, r2, d
<1>7. AtRevision(r2)
  BY <1>2, <1>5, <1>6, Zenon DEF AtRevision
<1>8. RowOK(r2, m)
  BY <1>1, <1>2, <1>4, <1>5, <1>7 DEF RowOK
<1>9. r.acked # None => r.acked.seq # d.seq
  BY <1>2 DEF NextSequence, AckedSequence, Cursor
<1>10. /\ s.neutral # None => d.cursor = s.neutral.cursor
       /\ s.dcursor # None => d.cursor = s.dcursor
  <2>1. ASSUME s.neutral # None PROVE d.cursor = s.neutral.cursor
    <3>1. /\ d.seq = s.neutral.seq /\ s.neutral.cursor.seq = s.neutral.seq
          /\ s.neutral.cursor # None
          /\ d = s.neutral \/ r.acked = s.neutral.cursor
      BY <1>1, <2>1, SubscriberAssumption DEF LagOK, d
    <3> QED
      BY <1>9, <3>1, Zenon
  <2>2. ASSUME s.dcursor # None PROVE d.cursor = s.dcursor
    <3>1. /\ d.seq = s.delivered /\ s.dcursor.seq = s.delivered
          /\ d.cursor = s.dcursor \/ r.acked = s.dcursor
      BY <1>1, <2>2, Zenon DEF LagOK, d
    <3> QED
      BY <1>9, <2>2, <3>1, Zenon
  <2> QED
    BY <2>1, <2>2
<1>11. LagOK(s, r2)
  BY <1>1, <1>5, <1>10, Zenon DEF LagOK
<1>12. CursorOK(s, r2, m)
  <2>1. ASSUME s.cursor # None, s.cursor.rev = r.revision
        PROVE  s.cursor.boundary = d.cursor.boundary /\ s.cursor.next <= m
    <3>1. AtRevision(r) /\ s.cursor.boundary = r.acked.boundary /\ s.cursor.next <= n
          /\ s.cursor.next \in Nat
      BY <1>1, <2>1, Zenon DEF CursorOK, Cursor
    <3> QED
      BY <1>2, <1>4, <3>1
  <2> QED
    BY <1>1, <1>5, <1>7, <2>1, Zenon DEF CursorOK
<1>13. RevisionOK(s, r2)
  BY <1>1, <1>5 DEF RevisionOK
<1>14. MirrorOK(s, r2, m)
  <2>1. CASE s.rev = r.revision /\ r.desired # None
    <3>1. Within(s.topology, DecodeAuthoritativeDesiredState(r.desired), r, n)
          /\ IsTopology(DecodeAuthoritativeDesiredState(r.desired))
      BY <1>1, <2>1 DEF MirrorOK, RowOK
    <3>2. AtRevision(r) => AtRevision(r2) /\ r2.acked.boundary = r.acked.boundary
      BY <1>2, <1>5, <1>7, Zenon
    <3>3. Within(s.topology, DecodeAuthoritativeDesiredState(r.desired), r2, m)
      BY <1>2, <1>4, <3>1, <3>2, WithinGrows, Zenon
    <3> QED
      BY <1>1, <1>5, <2>1, <3>3, Zenon DEF MirrorOK
  <2>2. CASE ~(s.rev = r.revision /\ r.desired # None)
    BY <1>1, <1>5, <2>2, Zenon DEF MirrorOK
  <2> QED
    BY <2>1, <2>2, Zenon
<1>15. SubscriberOK(s, r2, m)
  BY <1>8, <1>11, <1>12, <1>13, <1>14 DEF SubscriberOK, UnsettledOK
<1> QED
  BY <1>5, <1>10, <1>15, Zenon DEF m, r2, d

-----------------------------------------------------------------------------
LEMMA LeastNumber ==
    ASSUME NEW S \in SUBSET Nat, S # {}
    PROVE  Min(S) \in S
<1> DEFINE R == OpToRel(<, Nat)
<1>1. IsWellFoundedOn(R, Nat)
  BY NatLessThanWellFounded, Zenon
<1>2. \A x, y \in Nat : <<y, x>> \in R \/ x <= y
  BY DEF OpToRel
<1> HIDE DEF R
<1>3. PICK x \in S : \A y \in S : ~(<<y, x>> \in R)
  BY <1>1, WFMin, Zenon
<1>4. \A y \in S : x <= y
  BY <1>2, <1>3, Zenon
<1> QED
  BY <1>4, Zenon DEF Min

LEMMA EncodedType ==
    ASSUME NEW b \in OptBackfill
    PROVE  EncodeBackfill(b) \in WireBackfill \cup {None}
<1>1. CASE b = None
  BY <1>1 DEF EncodeBackfill
<1>2. CASE b # None
  <2>1. b.start \in Nat /\ b.end \in Nat \cup {None} /\ b.anchor \in OptBlock
    BY <1>2 DEF OptBackfill, SubscriberBackfill
  <2>2. (IF b.end = None THEN None ELSE b.end + 1) \in Nat \cup {None}
    BY <2>1
  <2> QED
    BY <1>2, <2>1, <2>2 DEF EncodeBackfill, WireBackfill
<1> QED
  BY <1>1, <1>2

\* A request asks for ranges of blocks, at most one of them canonical.
LEMMA RequestFacts ==
    ASSUME NEW t, IsTopology(t), NEW v \in Nat
    PROVE  LET request == BuildDesiredState(v, t) IN
           /\ request \in DesiredState /\ request # None
           /\ request.expected = v /\ request.new = v + 1
           /\ \A b \in Backfills(request) : b.from \in Nat
           /\ CanonicalBaseline(request) \in OptBlock
<1> DEFINE request == BuildDesiredState(v, t)
           own == {[id |-> o, interests |-> t.owners[o].interests,
                    backfill |-> EncodeBackfill(t.owners[o].backfill)] : o \in DOMAIN t.owners}
           canonical == [id |-> None, interests |-> t.base, backfill |-> EncodeBackfill(t.global)]
           Entries == [id : Owner \cup {None}, interests : SUBSET Interest,
                       backfill : WireBackfill \cup {None}]
<1>1. request = [expected |-> v, new |-> v + 1,
                 owners |-> own \cup (IF HasCanonicalEntry(t) THEN {canonical} ELSE {})]
  BY DEF BuildDesiredState
<1>2. None \notin DOMAIN t.owners
  BY SubscriberAssumption, Zenon DEF IsTopology
<1>3. canonical \in Entries
  <2>1. EncodeBackfill(t.global) \in WireBackfill \cup {None} /\ t.base \in SUBSET Interest
    BY EncodedType DEF IsTopology
  <2> QED
    BY <2>1
<1>4. ASSUME NEW o \in DOMAIN t.owners
      PROVE  [id |-> o, interests |-> t.owners[o].interests,
              backfill |-> EncodeBackfill(t.owners[o].backfill)] \in Entries
  <2>1. t.owners[o] \in Registration /\ o \in Owner
    BY DEF IsTopology
  <2>2. t.owners[o].interests \in SUBSET Interest /\ t.owners[o].backfill \in OptBackfill
    BY <2>1 DEF Registration
  <2>3. EncodeBackfill(t.owners[o].backfill) \in WireBackfill \cup {None}
    BY <2>2, EncodedType
  <2> QED
    BY <2>1, <2>2, <2>3
<1>5. own \in SUBSET Entries
  BY <1>4, Zenon
<1>6. \A e \in request.owners : e.id = None => e = canonical
  BY <1>1, <1>2
<1>7. request.owners \in SUBSET Entries
  BY <1>1, <1>3, <1>5
<1>8. request.expected = v /\ request.new = v + 1
  BY <1>1
<1>9. request \in DesiredState
  BY <1>1, <1>3, <1>5 DEF DesiredState
<1>10. request # None
  BY <1>9, SubscriberAssumption
<1> HIDE DEF request, own
<1>11. \A b \in Backfills(request) : b.from \in Nat
  BY <1>7 DEF Backfills, WireBackfill
<1>12. CanonicalBaseline(request) \in OptBlock
  <2>1. CASE \E o \in request.owners : o.id = None /\ o.backfill # None
    <3>1. canonical \in request.owners /\ canonical.backfill # None /\ canonical.id = None
      BY <1>6, <2>1, Zenon
    <3> HIDE DEF canonical
    <3>2. (CHOOSE o \in request.owners : o.id = None) = canonical
      BY <1>6, <3>1
    <3>3. canonical.backfill \in WireBackfill
      BY <1>3, <3>1
    <3> QED
      BY <2>1, <3>2, <3>3, Zenon DEF CanonicalBaseline, WireBackfill
  <2>2. CASE ~\E o \in request.owners : o.id = None /\ o.backfill # None
    BY <2>2 DEF CanonicalBaseline, OptBlock
  <2> QED
    BY <2>1, <2>2
<1> QED
  BY <1>8, <1>9, <1>10, <1>11, <1>12 DEF request

LEMMA PreparedTyped ==
    ASSUME RowOK(row, reach), NEW t, IsTopology(t), NEW v \in Nat, NEW height \in Nat
    PROVE  PreparedCursor(BuildDesiredState(v, t), height) \in Cursor
<1> DEFINE request == BuildDesiredState(v, t)
           activation == IF row.acked = None THEN height ELSE row.acked.next
           froms == {b.from : b \in Backfills(request)}
           next == IF row.acked = None /\ Backfills(request) # {}
                   THEN FirstBackfillBlock(request) ELSE Min(froms \cup {activation})
<1>1. /\ request.new \in Nat /\ \A b \in Backfills(request) : b.from \in Nat
      /\ CanonicalBaseline(request) \in OptBlock
  BY RequestFacts
<1> HIDE DEF request
<1>2. activation \in Nat /\ froms \in SUBSET Nat
  BY <1>1, Zenon DEF RowOK, Cursor
<1>3. ExpectedActivationHead(row.acked, request) \in OptBlock
  BY <1>1, Zenon DEF ExpectedActivationHead, RowOK, Cursor
<1>4. next \in Nat
  <2>1. CASE row.acked = None /\ Backfills(request) # {}
    <3>1. froms # {}
      BY <2>1, Zenon
    <3>2. Min(froms) \in froms
      BY <1>2, <3>1, LeastNumber, Zenon
    <3> QED
      BY <1>2, <2>1, <3>2, Zenon DEF FirstBackfillBlock
  <2>2. CASE ~(row.acked = None /\ Backfills(request) # {})
    <3>1. Min(froms \cup {activation}) \in froms \cup {activation}
      BY <1>2, LeastNumber, Zenon
    <3> QED
      BY <1>2, <2>2, <3>1
  <2> QED
    BY <2>1, <2>2, Zenon
<1>5. PreparedCursor(request, height) =
        [rev |-> request.new, seq |-> 0, next |-> next,
         head |-> ExpectedActivationHead(row.acked, request), boundary |-> activation]
  BY Zenon DEF PreparedCursor
<1> HIDE DEF activation, next
<1>6. PreparedCursor(request, height) \in Cursor
  BY <1>1, <1>2, <1>3, <1>4, <1>5 DEF Cursor
<1> QED
  BY <1>6 DEF request

LEMMA RowApplies ==
    ASSUME SubscriberOK(sub, row, reach), sub.candidate # None, NEW height \in Nat,
           ApplyAccepts(row, sub.candidate.request,
                        PreparedCursor(sub.candidate.request, height), TRUE)
    PROVE  LET r2 == ApplyRow(row, sub.candidate.request,
                              PreparedCursor(sub.candidate.request, height))
           IN  /\ SubscriberOK(sub, r2, 0)
               /\ r2.revision = sub.rev + 1 /\ r2.desired = sub.candidate.request
               /\ row.revision = sub.rev
<1> DEFINE t == sub.candidate.topology
           request == sub.candidate.request
           prepared == PreparedCursor(request, height)
           cursor == [prepared EXCEPT !.rev = request.new, !.seq = NextSequence(row)]
           act == ActivationDelivery(row, request, prepared)
           r2 == ApplyRow(row, request, prepared)
<1>1. /\ RowOK(row, reach) /\ LagOK(sub, row) /\ CursorOK(sub, row, reach) /\ CandidateOK(sub)
      /\ MirrorOK(sub, row, reach) /\ IsSubscriber(sub) /\ sub.rev \in Nat /\ Settled(sub)
  BY DEF SubscriberOK, UnsettledOK
<1>2. IsTopology(t) /\ request = BuildDesiredState(sub.rev, t)
  BY <1>1, Zenon DEF CandidateOK
<1>3. request.expected = sub.rev /\ request.new = sub.rev + 1 /\ request # None
  BY <1>1, <1>2, RequestFacts
<1>4. row.revision = sub.rev /\ row.pending = None
  BY <1>3 DEF ApplyAccepts, NoConflict
<1>5. prepared \in Cursor
  BY <1>1, <1>2, PreparedTyped
<1>6. DecodeAuthoritativeDesiredState(request) = t
  BY <1>2, DecodesBuilt, Zenon
<1>7. /\ IsRow(row) /\ row.acked \in Cursor \cup {None}
      /\ row.acked # None => row.acked.rev <= row.revision
  BY <1>1, Zenon DEF RowOK
<1>8. NextSequence(row) \in Nat
  BY <1>7 DEF NextSequence, AckedSequence, Cursor
<1> HIDE DEF t, request, prepared
<1>9. prepared # None
  BY <1>5, SubscriberAssumption
<1>10. cursor \in Cursor /\ cursor.rev = request.new /\ cursor.seq = NextSequence(row)
  <2>1. request.new \in Nat
    BY <1>1, <1>3
  <2>2. /\ prepared.next \in Nat /\ prepared.head \in OptBlock
        /\ prepared.boundary \in Nat \cup {None}
    BY <1>5 DEF Cursor
  <2>3. cursor = [prepared EXCEPT !.rev = request.new, !.seq = NextSequence(row)]
    OBVIOUS
  <2> HIDE DEF cursor
  <2> QED
    BY <1>5, <1>8, <2>1, <2>2, <2>3, Zenon DEF Cursor
<1>11. ActivationCursor(row, request, prepared) = cursor
  BY <1>9, Zenon DEF ActivationCursor
<1> HIDE DEF cursor
<1>12. act.cursor = cursor /\ act.rev = request.new /\ act.seq = NextSequence(row)
  BY <1>11 DEF ActivationDelivery
<1>13. /\ IsRow(r2) /\ r2.revision = request.new /\ r2.desired = request /\ r2.pending = act
       /\ r2.acked = row.acked
  <2>1. r2 = [row EXCEPT !.revision = request.new, !.desired = request, !.pending = act,
                         !.activation = NextSequence(row)]
    BY Zenon DEF ApplyRow
  <2> HIDE DEF r2, act
  <2> QED
    BY <1>7, <2>1, Zenon DEF IsRow
<1> HIDE DEF r2, act
<1>14. ~AtRevision(r2) /\ NextSequence(r2) = NextSequence(row)
  BY <1>1, <1>3, <1>4, <1>7, <1>13 DEF AtRevision, NextSequence, AckedSequence, Cursor
<1>15. RowOK(r2, 0)
  <2>1. r2.acked # None => r2.acked.rev <= r2.revision
    BY <1>1, <1>3, <1>4, <1>7, <1>13 DEF Cursor
  <2>2. IsRow(r2) /\ r2.revision \in Nat /\ r2.acked \in Cursor \cup {None}
    BY <1>1, <1>3, <1>7, <1>13
  <2>3. /\ r2.pending.cursor \in Cursor /\ r2.pending.cursor.rev = r2.revision
        /\ r2.pending.rev = r2.revision
        /\ r2.pending.seq = NextSequence(r2) /\ r2.pending.cursor.seq = r2.pending.seq
    BY <1>10, <1>12, <1>13, <1>14, Zenon
  <2>4. IsTopology(DecodeAuthoritativeDesiredState(r2.desired))
    BY <1>2, <1>6, <1>13, Zenon
  <2> QED
    BY <1>14, <2>1, <2>2, <2>3, <2>4, Zenon DEF RowOK
<1>16. LagOK(sub, r2)
  BY <1>1, <1>4, <1>13, Zenon DEF LagOK
<1>17. CursorOK(sub, r2, 0)
  <2> SUFFICES ASSUME sub.cursor # None
               PROVE  /\ sub.cursor \in Cursor /\ sub.cursor.rev <= sub.rev
                      /\ sub.cursor.rev # r2.revision
    BY Zenon DEF CursorOK
  <2>1. sub.cursor \in Cursor /\ sub.cursor.rev <= sub.rev
    BY <1>1, Zenon DEF CursorOK
  <2>2. sub.cursor.rev \in Nat /\ sub.rev \in Nat /\ r2.revision = sub.rev + 1
    BY <1>1, <1>3, <1>13, <2>1, Zenon DEF Cursor
  <2>3. sub.cursor.rev # r2.revision
    BY <2>1, <2>2
  <2> QED
    BY <2>1, <2>3, Zenon
<1>18. RevisionOK(sub, r2) /\ MirrorOK(sub, r2, 0)
  BY <1>1, <1>3, <1>13 DEF RevisionOK, MirrorOK, request
<1>19. SubscriberOK(sub, r2, 0)
  BY <1>1, <1>15, <1>16, <1>17, <1>18, Zenon DEF SubscriberOK, UnsettledOK
<1> QED
  BY <1>3, <1>4, <1>13, <1>19 DEF r2, prepared, request

\* commit_candidate: the candidate that became the revision becomes the mirror.
LEMMA CandidateCommits ==
    ASSUME NEW s, NEW r, NEW n, SubscriberOK(s, r, n), s.candidate # None,
           r.revision = s.rev + 1, r.desired = s.candidate.request,
           NEW activation
    PROVE  SubscriberOK(CommitCandidate(s, [rev |-> r.revision, activation |-> activation]), r, n)
<1> DEFINE applied == [rev |-> r.revision, activation |-> activation]
           t == s.candidate.topology
           x == [s EXCEPT !.topology = t, !.rev = r.revision, !.candidate = None]
<1>1. /\ RowOK(r, n) /\ LagOK(s, r) /\ CursorOK(s, r, n) /\ CandidateOK(s)
      /\ MirrorOK(s, r, n) /\ IsSubscriber(s) /\ s.rev \in Nat
  BY Zenon DEF SubscriberOK, UnsettledOK
<1>2. IsTopology(t) /\ r.desired = BuildDesiredState(s.rev, t)
  BY <1>1, Zenon DEF CandidateOK
<1>3. r.desired # None /\ DecodeAuthoritativeDesiredState(r.desired) = t
  BY <1>1, <1>2, RequestFacts, DecodesBuilt
<1>4. /\ IsSubscriber(x) /\ x.topology = t /\ x.rev = r.revision /\ x.candidate = None
      /\ x.neutral = s.neutral /\ x.cursor = s.cursor /\ x.delivered = s.delivered
      /\ x.dcursor = s.dcursor
  <2> HIDE DEF t
  <2>1. x = [s EXCEPT !.topology = t, !.rev = r.revision, !.candidate = None]
    OBVIOUS
  <2> HIDE DEF x
  <2> QED
    BY <1>1, <2>1, Zenon DEF IsSubscriber
<1> HIDE DEF x, t
<1>5. LagOK(x, r) /\ CandidateOK(x) /\ RevisionOK(x, r)
  BY <1>1, <1>4, Zenon DEF LagOK, CandidateOK, RevisionOK
<1>6. CursorOK(x, r, n)
  BY <1>1, <1>4 DEF CursorOK, Cursor
<1>7. MirrorOK(x, r, n)
  <2>1. Within(t, t, r, n)
    BY DEF Within, Slot
  <2> QED
    BY <1>2, <1>3, <1>4, <2>1, Zenon DEF MirrorOK
<1>8. UnsettledOK(x, r, n)
  BY <1>1, <1>4, <1>5, <1>6, <1>7, Zenon DEF UnsettledOK, RowOK
<1>9. SubscriberOK(MaybeCompleteBackfill(x), r, n)
  BY <1>4, <1>8, CompletingSettles
<1>10. CommitCandidate(s, applied) \in {s, MaybeCompleteBackfill(x)}
  BY DEF CommitCandidate, x, t
<1> QED
  BY <1>9, <1>10, Zenon

(***************************************************************************)
(* How the subscriber moves                                                *)
(***************************************************************************)
\* The revision, the mirror and the cursor stay.
LEMMA KeepsMirror ==
    ASSUME NEW s, NEW r, NEW n, SubscriberOK(s, r, n), NEW x, IsSubscriber(x),
           x.rev = s.rev, x.topology = s.topology, x.cursor = s.cursor,
           LagOK(x, r), CandidateOK(x), RevisionOK(x, r)
    PROVE  SubscriberOK(x, r, n)
<1>1. MirrorOK(x, r, n) /\ CursorOK(x, r, n) /\ Settled(x)
  BY Zenon DEF SubscriberOK, UnsettledOK, MirrorOK, CursorOK, Settled
<1> QED
  BY <1>1, Zenon DEF SubscriberOK, UnsettledOK

\* The position becomes the acknowledged one.
LEMMA TakesPosition ==
    ASSUME NEW s, NEW r, NEW n, SubscriberOK(s, r, n), s.candidate = None,
           NEW x, IsSubscriber(x), x.rev = s.rev, x.topology = s.topology, x.candidate = None,
           x.neutral = None, x.cursor = r.acked,
           x.dcursor = None \/ (x.dcursor = s.dcursor /\ x.delivered = s.delivered)
    PROVE  SubscriberOK(MaybeCompleteBackfill(x), r, n)
<1>1. s.rev = r.revision /\ s.rev \in Nat /\ RowOK(r, n) /\ LagOK(s, r) /\ MirrorOK(s, r, n)
  BY Zenon DEF SubscriberOK, UnsettledOK, RevisionOK
<1>2. LagOK(x, r)
  BY <1>1, Zenon DEF LagOK
<1>3. CursorOK(x, r, n)
  BY <1>1, Zenon DEF CursorOK, RowOK, AtRevision
<1>4. MirrorOK(x, r, n) /\ CandidateOK(x) /\ RevisionOK(x, r)
  BY <1>1, Zenon DEF MirrorOK, CandidateOK, RevisionOK
<1>5. UnsettledOK(x, r, n)
  BY <1>1, <1>2, <1>3, <1>4, Zenon DEF UnsettledOK
<1> QED
  BY <1>5, CompletingSettles, Zenon

\* The transport's acknowledge, of the subscriber's own last delivery.
LEMMA AcknowledgementKeeps ==
    ASSUME SubscriberOK(sub, row, reach), NEW seq, AcknowledgementReaches(seq),
           sub.neutral # None => seq = sub.neutral.seq,
           sub.neutral = None => seq = sub.delivered
    PROVE  /\ SubscriberOK(sub, row', reach')
           /\ sub.neutral # None => row'.acked = sub.neutral.cursor
           /\ sub.dcursor # None => row'.acked = sub.dcursor
<1> DEFINE ack == [seq |-> seq, token |-> Token(seq)]
<1>1. CASE /\ AckAccepts(row, ack) /\ row' = AckRow(row)
           /\ reach' = Max({row.pending.cursor.next,
                            IF row.pending.rev = row.revision THEN reach ELSE 0})
  <2>1. row.pending # None /\ row.pending.seq = seq
    BY <1>1, Zenon DEF AckAccepts
  <2> QED
    BY <1>1, <2>1, RowAcks, Zenon
<1>2. CASE AckRepeats(row, ack) /\ UNCHANGED <<row, reach>>
  <2>1. row.pending = None /\ row' = row /\ reach' = reach
    BY <1>2, Zenon DEF AckRepeats
  <2> QED
    BY <2>1 DEF SubscriberOK, UnsettledOK, LagOK
<1> QED
  BY <1>1, <1>2, Zenon DEF AcknowledgementReaches

LEMMA NeutralKeeps ==
    ASSUME SubscriberOK(sub, row, reach), NeutralAcknowledged \/ NeutralUncertain
    PROVE  SubscriberOK(sub, row, reach)'
<1>1. sub.candidate = None /\ sub.neutral # None /\ AcknowledgementReaches(sub.neutral.seq)
  BY Zenon DEF NeutralAcknowledged, NeutralUncertain
<1>2. SubscriberOK(sub, row', reach') /\ row'.acked = sub.neutral.cursor
  BY <1>1, AcknowledgementKeeps
<1>3. CASE NeutralUncertain
  <2>1. sub' = sub
    BY <1>3, Zenon DEF NeutralUncertain
  <2>2. SubscriberOK(sub', row', reach')
    BY <1>2, <2>1
  <2> QED
    BY <2>2, Zenon
<1>4. CASE NeutralAcknowledged
  <2> DEFINE x == [sub EXCEPT !.acked = sub.neutral.seq, !.cursor = sub.neutral.cursor,
                              !.neutral = None]
  <2>1. sub' = MaybeCompleteBackfill(x)
    BY <1>4 DEF NeutralAcknowledged
  <2>2. /\ IsSubscriber(x) /\ x.rev = sub.rev /\ x.topology = sub.topology
        /\ x.candidate = sub.candidate /\ x.neutral = None /\ x.cursor = sub.neutral.cursor
        /\ x.dcursor = sub.dcursor /\ x.delivered = sub.delivered
    <3>1. x = [sub EXCEPT !.acked = sub.neutral.seq, !.cursor = sub.neutral.cursor,
                          !.neutral = None]
      OBVIOUS
    <3>2. IsSubscriber(sub)
      BY Zenon DEF SubscriberOK, UnsettledOK
    <3> HIDE DEF x
    <3> QED
      BY <3>1, <3>2, Zenon DEF IsSubscriber
  <2> HIDE DEF x
  <2>3. SubscriberOK(MaybeCompleteBackfill(x), row', reach')
    BY <1>1, <1>2, <2>2, TakesPosition
  <2> QED
    BY <2>1, <2>3
<1> QED
  BY <1>3, <1>4

LEMMA DeliveryKeeps ==
    ASSUME SubscriberOK(sub, row, reach), DeliveryAcknowledged \/ DeliveryUncertain
    PROVE  SubscriberOK(sub, row, reach)'
<1>1. sub.candidate = None /\ sub.neutral = None
  BY DEF DeliveryAcknowledged, DeliveryUncertain, Reconciled
<1>2. CASE DeliveryUncertain
  <2> DEFINE x == [sub EXCEPT !.acking = TRUE]
  <2>1. SubscriberOK(sub, row', reach')
    <3>1. CASE AcknowledgementReaches(sub.delivered)
      BY <1>1, <3>1, AcknowledgementKeeps
    <3>2. CASE UNCHANGED <<row, reach>>
      BY <3>2
    <3> QED
      BY <1>2, <3>1, <3>2, Zenon DEF DeliveryUncertain
  <2>2. sub' = x
    BY <1>2 DEF DeliveryUncertain
  <2>3. /\ IsSubscriber(x) /\ x.rev = sub.rev /\ x.topology = sub.topology
        /\ x.candidate = sub.candidate /\ x.neutral = sub.neutral /\ x.cursor = sub.cursor
        /\ x.dcursor = sub.dcursor /\ x.delivered = sub.delivered
    <3>1. x = [sub EXCEPT !.acking = TRUE]
      OBVIOUS
    <3>2. IsSubscriber(sub)
      BY DEF SubscriberOK, UnsettledOK
    <3> HIDE DEF x
    <3> QED
      BY <3>1, <3>2, Zenon DEF IsSubscriber
  <2> HIDE DEF x
  <2>4. LagOK(x, row') /\ CandidateOK(x) /\ RevisionOK(x, row')
    BY <2>1, <2>3, Zenon DEF SubscriberOK, UnsettledOK, LagOK, CandidateOK, RevisionOK
  <2>5. SubscriberOK(x, row', reach')
    BY <2>1, <2>3, <2>4, KeepsMirror
  <2> QED
    BY <2>2, <2>5
<1>3. CASE DeliveryAcknowledged
  <2> DEFINE cursor == IF sub.dcursor # None THEN sub.dcursor ELSE row'.acked
             x == [sub EXCEPT !.acked = sub.delivered, !.cursor = cursor,
                              !.delivered = None, !.dcursor = None, !.acking = FALSE]
  <2>1. AcknowledgementReaches(sub.delivered) /\ sub' = MaybeCompleteBackfill(x)
    BY <1>3 DEF DeliveryAcknowledged
  <2>2. SubscriberOK(sub, row', reach') /\ cursor = row'.acked
    BY <1>1, <2>1, AcknowledgementKeeps
  <2>3. /\ IsSubscriber(x) /\ x.rev = sub.rev /\ x.topology = sub.topology
        /\ x.candidate = sub.candidate /\ x.neutral = sub.neutral /\ x.cursor = cursor
        /\ x.dcursor = None
    <3> HIDE DEF cursor
    <3>1. x = [sub EXCEPT !.acked = sub.delivered, !.cursor = cursor,
                          !.delivered = None, !.dcursor = None, !.acking = FALSE]
      OBVIOUS
    <3>2. IsSubscriber(sub)
      BY DEF SubscriberOK, UnsettledOK
    <3> HIDE DEF x
    <3> QED
      BY <3>1, <3>2, Zenon DEF IsSubscriber
  <2> HIDE DEF x, cursor
  <2>4. SubscriberOK(MaybeCompleteBackfill(x), row', reach')
    BY <1>1, <2>2, <2>3, TakesPosition, Zenon
  <2> QED
    BY <2>1, <2>4
<1> QED
  BY <1>2, <1>3

\* next_batch: the delivery in the outbox is the one the subscriber waits for.
LEMMA NextBatchKeeps ==
    ASSUME SubscriberOK(sub, row, reach), NextBatch
    PROVE  SubscriberOK(sub, row, reach)'
<1> DEFINE d == row.pending
<1>1. /\ sub.candidate = None /\ sub.neutral = None /\ d # None /\ d.seq = ExpectedSequence(sub)
      /\ row' = row /\ reach' = reach
  BY DEF NextBatch, Reconciled, DecodesDelivery
<1>2. RowOK(row, reach) /\ LagOK(sub, row) /\ RevisionOK(sub, row) /\ IsSubscriber(sub)
  BY Zenon DEF SubscriberOK, UnsettledOK
<1>3. d.cursor \in Cursor /\ d.cursor # None /\ d.cursor.seq = d.seq
  BY <1>1, <1>2, SubscriberAssumption DEF RowOK
<1>4. CASE d.neutral
  <2> DEFINE x == [sub EXCEPT !.neutral = d]
  <2>1. sub' = x
    BY <1>4 DEF NextBatch
  <2>2. /\ IsSubscriber(x) /\ x.rev = sub.rev /\ x.topology = sub.topology
        /\ x.candidate = sub.candidate /\ x.neutral = d /\ x.cursor = sub.cursor
        /\ x.dcursor = sub.dcursor /\ x.delivered = sub.delivered
    <3> HIDE DEF d
    <3>1. x = [sub EXCEPT !.neutral = d]
      OBVIOUS
    <3> HIDE DEF x
    <3> QED
      BY <1>2, <3>1 DEF IsSubscriber
  <2> HIDE DEF x
  <2>3. ASSUME sub.dcursor # None PROVE d.seq = sub.delivered
    <3>1. sub.dcursor.seq = sub.delivered /\ sub.dcursor \in Cursor
      BY <1>2, <2>3, Zenon DEF LagOK, RowOK
    <3>2. sub.delivered # None
      BY <3>1, ChainAssumption DEF Cursor
    <3> QED
      BY <1>1, <3>2, Zenon DEF ExpectedSequence
  <2>4. LagOK(x, row) /\ CandidateOK(x) /\ RevisionOK(x, row)
    BY <1>1, <1>2, <1>3, <2>2, <2>3, Zenon DEF LagOK, CandidateOK, RevisionOK
  <2>5. SubscriberOK(x, row, reach)
    BY <2>2, <2>4, KeepsMirror
  <2> QED
    BY <1>1, <2>1, <2>5
<1>5. CASE ~d.neutral
  <2> DEFINE x == [sub EXCEPT !.delivered = d.seq, !.dcursor = d.cursor]
  <2>1. sub' = x
    BY <1>5 DEF NextBatch
  <2>2. /\ IsSubscriber(x) /\ x.rev = sub.rev /\ x.topology = sub.topology
        /\ x.candidate = sub.candidate /\ x.neutral = sub.neutral /\ x.cursor = sub.cursor
        /\ x.dcursor = d.cursor /\ x.delivered = d.seq
    <3> HIDE DEF d
    <3>1. x = [sub EXCEPT !.delivered = d.seq, !.dcursor = d.cursor]
      OBVIOUS
    <3> HIDE DEF x
    <3> QED
      BY <1>2, <3>1, Zenon DEF IsSubscriber
  <2> HIDE DEF x
  <2>3. LagOK(x, row) /\ CandidateOK(x) /\ RevisionOK(x, row)
    BY <1>1, <1>2, <1>3, <2>2, Zenon DEF LagOK, CandidateOK, RevisionOK
  <2>4. SubscriberOK(x, row, reach)
    BY <2>2, <2>3, KeepsMirror, Zenon
  <2> QED
    BY <1>1, <2>1, <2>4
<1> QED
  BY <1>4, <1>5

LEMMA SourceKeeps ==
    ASSUME SubscriberInv, SourceStep
    PROVE  SubscriberOK(sub, row, reach)'
<1>1. PICK next \in env.heights, head \in env.blocks \cup {None},
           payload \in env.payloads \cup ProgressBarriers : SourceDelivers(next, head, payload)
  BY DEF SourceStep
<1> DEFINE seq == NextSequence(row)
           cursor == [rev |-> row.revision, seq |-> seq, next |-> next, head |-> head,
                      boundary |-> row.acked.boundary]
           d == [seq |-> seq, rev |-> row.revision, token |-> Token(seq), cursor |-> cursor,
                 payload |-> payload, neutral |-> payload.kind = "barrier"]
<1>2. /\ row.acked # None /\ row.pending = None /\ row' = SaveRow(row, d)
      /\ sub' = sub /\ reach' = reach
  BY <1>1, Zenon DEF SourceDelivers, SaveAccepts
<1>3. next \in Nat /\ head \in OptBlock
  BY SubscriberAssumption DEF SubscriberInv, OptBlock
<1>4. row.revision \in Nat /\ row.acked \in Cursor
  BY <1>2, Zenon DEF SubscriberInv, SubscriberOK, UnsettledOK, RowOK
<1>5. seq \in Nat /\ row.acked.boundary \in Nat \cup {None}
  BY <1>4 DEF NextSequence, AckedSequence, Cursor
<1>6. /\ d.cursor = cursor /\ d.rev = row.revision /\ d.seq = seq /\ cursor.rev = row.revision
      /\ cursor.seq = seq /\ cursor.boundary = row.acked.boundary
  BY Zenon
<1>7. cursor \in Cursor
  <2> HIDE DEF seq
  <2> QED
    BY <1>3, <1>4, <1>5, Zenon DEF Cursor
<1> HIDE DEF d, cursor
<1>8. SubscriberOK(sub, SaveRow(row, d), reach)
  BY <1>2, <1>6, <1>7, RowSaves, Zenon DEF SubscriberInv
<1> QED
  BY <1>2, <1>8, Zenon

\* new_from_authoritative: a fresh mirror is what the service has, less what
\* the acknowledged position completes.
LEMMA ConnectedIsSound ==
    ASSUME RowOK(row, reach)
    PROVE  SubscriberOK(NewFromAuthoritative, row, reach)
<1> DEFINE t == IF row.desired = None THEN NoTopology
                ELSE DecodeAuthoritativeDesiredState(row.desired)
           s == [NewAtRevision(row.revision) EXCEPT !.topology = t]
           x == [s EXCEPT !.acked = AckedSequence(row), !.cursor = row.acked]
<1>1. NewFromAuthoritative = MaybeCompleteBackfill(x)
  BY Zenon DEF NewFromAuthoritative, RestoreTransportAuthority
<1>2. IsTopology(t)
  BY EmptyTopology, Zenon DEF RowOK
<1>3. /\ IsSubscriber(x) /\ x.rev = row.revision /\ x.topology = t /\ x.candidate = None
      /\ x.neutral = None /\ x.cursor = row.acked /\ x.dcursor = None
  <2> HIDE DEF t
  <2> DEFINE z == NewAtRevision(row.revision)
  <2>1. IsSubscriber(z) /\ z.rev = row.revision /\ z.candidate = None /\ z.neutral = None
        /\ z.dcursor = None
    BY DEF NewAtRevision, IsSubscriber
  <2>2. s = [z EXCEPT !.topology = t]
    OBVIOUS
  <2> HIDE DEF z, s
  <2>3. IsSubscriber(s) /\ s.rev = z.rev /\ s.topology = t /\ s.candidate = z.candidate
        /\ s.neutral = z.neutral /\ s.dcursor = z.dcursor
    BY <2>1, <2>2 DEF IsSubscriber
  <2>4. x = [s EXCEPT !.acked = AckedSequence(row), !.cursor = row.acked]
    OBVIOUS
  <2> HIDE DEF x
  <2>5. IsSubscriber(x) /\ x.rev = s.rev /\ x.topology = s.topology /\ x.candidate = s.candidate
        /\ x.neutral = s.neutral /\ x.cursor = row.acked /\ x.dcursor = s.dcursor
    BY <2>3, <2>4, Zenon DEF IsSubscriber
  <2> QED
    BY <2>1, <2>3, <2>5, Zenon
<1> HIDE DEF x
<1>4. CursorOK(x, row, reach)
  BY <1>3, Zenon DEF CursorOK, RowOK, AtRevision
<1>5. MirrorOK(x, row, reach)
  <2>1. Within(t, t, row, reach)
    BY Zenon DEF Within, Slot
  <2> QED
    BY <1>2, <1>3, <2>1 DEF MirrorOK
<1>6. LagOK(x, row) /\ CandidateOK(x) /\ RevisionOK(x, row) /\ x.rev \in Nat
  BY <1>3, Zenon DEF LagOK, CandidateOK, RevisionOK, RowOK
<1>7. UnsettledOK(x, row, reach)
  BY <1>3, <1>4, <1>5, <1>6, Zenon DEF UnsettledOK
<1> QED
  BY <1>1, <1>3, <1>7, CompletingSettles

LEMMA RestoreKeeps ==
    ASSUME SubscriberOK(sub, row, reach), RestorePosition
    PROVE  SubscriberOK(sub, row, reach)'
<1> DEFINE delivered == IF runtime.saved = NextSequence(row) THEN runtime.saved ELSE None
           x == [sub EXCEPT !.acked = AckedSequence(row), !.cursor = row.acked,
                            !.delivered = delivered, !.dcursor = None]
<1>1. /\ sub.candidate = None /\ sub.neutral = None /\ sub' = MaybeCompleteBackfill(x)
      /\ row' = row /\ reach' = reach
  BY DEF RestorePosition
<1>2. /\ IsSubscriber(x) /\ x.rev = sub.rev /\ x.topology = sub.topology
      /\ x.candidate = sub.candidate /\ x.neutral = sub.neutral /\ x.cursor = row.acked
      /\ x.dcursor = None
  <2> HIDE DEF delivered
  <2>1. x = [sub EXCEPT !.acked = AckedSequence(row), !.cursor = row.acked,
                        !.delivered = delivered, !.dcursor = None]
    OBVIOUS
  <2>2. IsSubscriber(sub)
    BY Zenon DEF SubscriberOK, UnsettledOK
  <2> HIDE DEF x
  <2> QED
    BY <2>1, <2>2, Zenon DEF IsSubscriber
<1> HIDE DEF x
<1>3. SubscriberOK(MaybeCompleteBackfill(x), row, reach)
  BY <1>1, <1>2, TakesPosition
<1> QED
  BY <1>1, <1>3

\* What a candidate changes: nothing but the candidate.
LEMMA CandidateFields ==
    ASSUME SubscriberOK(sub, row, reach), NEW c
    PROVE  LET x == [sub EXCEPT !.candidate = c] IN
           /\ IsSubscriber(x) /\ x.rev = sub.rev /\ x.topology = sub.topology
           /\ x.candidate = c /\ x.cursor = sub.cursor /\ LagOK(x, row)
<1> DEFINE x == [sub EXCEPT !.candidate = c]
<1>1. x = [sub EXCEPT !.candidate = c]
  BY Zenon
<1>2. IsSubscriber(sub) /\ LagOK(sub, row)
  BY DEF SubscriberOK, UnsettledOK
<1> HIDE DEF x
<1>3. /\ IsSubscriber(x) /\ x.rev = sub.rev /\ x.topology = sub.topology
      /\ x.candidate = c /\ x.cursor = sub.cursor /\ x.neutral = sub.neutral
      /\ x.dcursor = sub.dcursor /\ x.delivered = sub.delivered
  BY <1>1, <1>2, Zenon DEF IsSubscriber
<1>4. LagOK(x, row)
  BY <1>2, <1>3 DEF LagOK
<1> QED
  BY <1>3, <1>4 DEF x

LEMMA ApplyCandidateKeeps ==
    ASSUME SubscriberOK(sub, row, reach), NEW t, IsTopology(t), NEW supersedes,
           ApplyCandidate(t, supersedes)
    PROVE  SubscriberOK(sub, row, reach)'
<1> DEFINE c == [request |-> BuildDesiredState(sub.rev, t), topology |-> t,
                 supersedes |-> supersedes]
           x == [sub EXCEPT !.candidate = c]
<1>1. /\ sub.candidate = None /\ sub' = x /\ row' = row /\ reach' = reach
      /\ HasIncompleteBackfill(sub.topology) => supersedes
  BY DEF ApplyCandidate, Reconciled
<1>2. /\ c.request = BuildDesiredState(sub.rev, t) /\ c.topology = t
      /\ c.supersedes = supersedes
  OBVIOUS
<1>3. sub.rev = row.revision
  BY <1>1 DEF SubscriberOK, UnsettledOK, RevisionOK
<1> HIDE DEF c
<1>4. /\ IsSubscriber(x) /\ x.rev = sub.rev /\ x.topology = sub.topology
      /\ x.candidate = c /\ x.cursor = sub.cursor /\ LagOK(x, row)
  BY CandidateFields, Zenon
<1> HIDE DEF x
<1>5. CandidateOK(x) /\ RevisionOK(x, row)
  BY <1>1, <1>2, <1>3, <1>4 DEF CandidateOK, RevisionOK
<1>6. SubscriberOK(x, row, reach)
  BY <1>4, <1>5, KeepsMirror
<1> QED
  BY <1>1, <1>6

LEMMA RejectionKeeps ==
    ASSUME SubscriberOK(sub, row, reach), CandidateRejected
    PROVE  SubscriberOK(sub, row, reach)'
<1> DEFINE x == [sub EXCEPT !.candidate = None]
<1>1. sub' = x /\ row' = row /\ reach' = reach /\ row.desired # sub.candidate.request
  BY DEF CandidateRejected
<1>2. /\ IsSubscriber(x) /\ x.rev = sub.rev /\ x.topology = sub.topology
      /\ x.candidate = None /\ x.cursor = sub.cursor /\ LagOK(x, row)
  BY CandidateFields
<1> HIDE DEF x
<1>3. CandidateOK(x) /\ RevisionOK(x, row)
  BY <1>1, <1>2, Zenon DEF SubscriberOK, UnsettledOK, CandidateOK, RevisionOK
<1>4. SubscriberOK(x, row, reach)
  BY <1>2, <1>3, KeepsMirror, Zenon
<1> QED
  BY <1>1, <1>4

\* The service commits the candidate, or has committed it before.
LEMMA CandidateReachesRow ==
    ASSUME SubscriberOK(sub, row, reach), sub.candidate # None, NEW height \in Nat,
           CandidateReaches(sub.candidate.request, height)
    PROVE  /\ SubscriberOK(sub, row', reach')
           /\ row'.revision = sub.rev + 1 /\ row'.desired = sub.candidate.request
           /\ row'.revision # row.revision => row.revision = sub.rev
<1> DEFINE request == sub.candidate.request
<1>1. CASE /\ ApplyAccepts(row, request, PreparedCursor(request, height), TRUE)
           /\ row' = ApplyRow(row, request, PreparedCursor(request, height)) /\ reach' = 0
  BY <1>1, RowApplies, Zenon
<1>2. CASE ApplyReplays(row, request, None) /\ UNCHANGED <<row, reach>>
  <2>1. row' = row /\ reach' = reach /\ row.revision = request.new /\ row.desired = request
    BY <1>2, Zenon DEF ApplyReplays
  <2>2. request.new = sub.rev + 1
    BY RequestFacts DEF SubscriberOK, UnsettledOK, CandidateOK
  <2> QED
    BY <2>1, <2>2, Zenon
<1> QED
  BY <1>1, <1>2, Zenon DEF CandidateReaches

LEMMA CandidateKeeps ==
    ASSUME SubscriberOK(sub, row, reach), NEW height \in Nat,
           CandidateApplied(height) \/ CandidateUncertain(height)
    PROVE  SubscriberOK(sub, row, reach)'
<1>1. sub.candidate # None /\ CandidateReaches(sub.candidate.request, height)
  BY Zenon DEF CandidateApplied, CandidateUncertain
<1>2. /\ SubscriberOK(sub, row', reach')
      /\ row'.revision = sub.rev + 1 /\ row'.desired = sub.candidate.request
  BY <1>1, CandidateReachesRow, Zenon
<1>3. CASE CandidateUncertain(height)
  <2>1. sub' = sub
    BY <1>3 DEF CandidateUncertain
  <2> QED
    BY <1>2, <2>1
<1>4. CASE CandidateApplied(height)
  <2> DEFINE x == CommitCandidate(sub, [rev |-> row'.revision, activation |-> row'.activation])
  <2>1. sub' = x
    BY <1>4, Zenon DEF CandidateApplied
  <2>2. SubscriberOK(x, row', reach')
    BY <1>1, <1>2, CandidateCommits
  <2> HIDE DEF x
  <2> QED
    BY <2>1, <2>2, Zenon
<1> QED
  BY <1>3, <1>4

\* A topology that a lifecycle call asks for is one.
LEMMA BuildsTopology ==
    ASSUME NEW base \in SUBSET Interest, NEW global \in OptBackfill,
           NEW D \in SUBSET Owner, NEW f \in [D -> Registration]
    PROVE  IsTopology([base |-> base, global |-> global, owners |-> f])
  BY Zenon DEF IsTopology

LEMMA LifecycleKeeps ==
    ASSUME SubscriberInv, Lifecycle
    PROVE  SubscriberOK(sub, row, reach)'
<1> DEFINE T == sub.topology
<1>1. /\ SubscriberOK(sub, row, reach) /\ IsTopology(T)
      /\ env.ranges \subseteq SubscriberBackfill /\ env.blocks \subseteq Block
  BY SubscriberAssumption, Zenon DEF SubscriberInv, SubscriberOK, UnsettledOK, MirrorOK
<1>2. /\ T.base \in SUBSET Interest /\ DOMAIN T.owners \in SUBSET Owner
      /\ \A o \in DOMAIN T.owners : T.owners[o] \in Registration
  BY <1>1 DEF IsTopology
<1>3. None \in OptBackfill /\ {} \in SUBSET Interest /\ Interest \in SUBSET Interest
  BY DEF OptBackfill
<1>4. \A I \in SUBSET Interest : Live(I) \in Registration
  BY <1>3 DEF Live, Registration
<1>5. ASSUME NEW o \in Owner, NEW g \in Registration
      PROVE  WithOwner(o, g) \in [DOMAIN T.owners \cup {o} -> Registration]
             /\ DOMAIN T.owners \cup {o} \in SUBSET Owner
  BY <1>2 DEF WithOwner
<1>6. \A I \in SUBSET Interest, b \in SubscriberBackfill :
        [interests |-> I, backfill |-> b] \in Registration
  BY Zenon DEF Registration, OptBackfill
<1> HIDE DEF T
<1>7. CASE \E interests \in SUBSET Interest : RegisterInterests(interests)
  <2>1. PICK interests \in SUBSET Interest : RegisterInterests(interests)
    BY <1>7
  <2>2. NoOwners \in [{} -> Registration] /\ {} \in SUBSET Owner
    BY DEF NoOwners
  <2>3. IsTopology([base |-> interests, global |-> None, owners |-> NoOwners])
    BY <1>3, <2>2, BuildsTopology, Zenon
  <2> QED
    BY <1>1, <2>1, <2>3, ApplyCandidateKeeps, Zenon DEF RegisterInterests
<1>8. CASE \E updates \in SUBSET Owner : UpsertInterestOwners(updates, Interest)
  <2>1. PICK updates \in SUBSET Owner : UpsertInterestOwners(updates, Interest)
    BY <1>8
  <2> DEFINE f == [o \in DOMAIN T.owners \cup updates |->
                     IF o \in updates THEN Live(Interest) ELSE T.owners[o]]
  <2>2. DOMAIN T.owners \cup updates \in SUBSET Owner
        /\ f \in [DOMAIN T.owners \cup updates -> Registration]
    BY <1>2, <1>3, <1>4, Zenon
  <2> HIDE DEF f
  <2>3. IsTopology([base |-> T.base, global |-> None, owners |-> f])
    BY <1>2, <1>3, <2>2, BuildsTopology
  <2>4. ApplyCandidate([base |-> T.base, global |-> None, owners |-> f], FALSE)
    BY <2>1, Zenon DEF UpsertInterestOwners, f, T
  <2> QED
    BY <1>1, <2>3, <2>4, ApplyCandidateKeeps, Zenon
<1>9. ASSUME NEW owners \in SUBSET Owner, NEW b \in OptBackfill,
             ApplyCandidate([base |-> {}, global |-> b,
                             owners |-> [o \in owners |-> Live(Interest)]], TRUE)
      PROVE  SubscriberOK(sub, row, reach)'
  <2>1. [o \in owners |-> Live(Interest)] \in [owners -> Registration]
    BY <1>3, <1>4
  <2>2. IsTopology([base |-> {}, global |-> b, owners |-> [o \in owners |-> Live(Interest)]])
    BY <1>3, <2>1, BuildsTopology, Zenon
  <2> QED
    BY <1>1, <1>9, <2>2, ApplyCandidateKeeps, Zenon
<1>10. CASE \E owners \in SUBSET Owner : ReplaceInterestOwners(owners, Interest)
  BY <1>3, <1>9, <1>10, Zenon DEF ReplaceInterestOwners
<1>11. CASE \E owners \in SUBSET Owner, b \in env.ranges :
              ReplaceInterestOwnersWithGlobalBackfill(owners, Interest, b)
  <2>1. PICK owners \in SUBSET Owner, b \in env.ranges :
            ReplaceInterestOwnersWithGlobalBackfill(owners, Interest, b)
    BY <1>11, Zenon
  <2>2. b \in OptBackfill
    BY <1>1, Zenon DEF OptBackfill
  <2> QED
    BY <1>9, <2>1, <2>2, Zenon DEF ReplaceInterestOwnersWithGlobalBackfill
<1>12. ASSUME NEW o \in Owner, NEW g \in Registration, NEW global \in OptBackfill,
              ApplyCandidate([base |-> T.base, global |-> global,
                              owners |-> WithOwner(o, g)], FALSE)
       PROVE  SubscriberOK(sub, row, reach)'
  <2>1. IsTopology([base |-> T.base, global |-> global, owners |-> WithOwner(o, g)])
    BY <1>2, <1>5, BuildsTopology, Zenon
  <2> QED
    BY <1>1, <1>12, <2>1, ApplyCandidateKeeps, Zenon
<1>13. CASE \E o \in Owner : AddInterestOwner(o, Interest)
  BY <1>3, <1>4, <1>12, <1>13, Zenon DEF AddInterestOwner, T
<1>14. CASE \E o \in Owner, b \in env.ranges : AddInterestOwnerWithBackfill(o, Interest, b)
  <2>1. PICK o \in Owner, b \in env.ranges : AddInterestOwnerWithBackfill(o, Interest, b)
    BY <1>14
  <2>2. SplitMidLifecycleBackfill(b) \in SubscriberBackfill
    BY <1>1 DEF SplitMidLifecycleBackfill, SubscriberBackfill, OptBlock
  <2>3. [interests |-> Interest, backfill |-> SplitMidLifecycleBackfill(b)] \in Registration
    BY <1>3, <1>6, <2>2, Zenon
  <2> QED
    BY <1>3, <1>12, <2>1, <2>3, Zenon DEF AddInterestOwnerWithBackfill, T
<1>15. CASE \E o \in Owner, retained \in env.blocks :
              AddInterestOwnerWithCanonicalCatchup(o, Interest, retained)
  <2>1. PICK o \in Owner, retained \in env.blocks :
            AddInterestOwnerWithCanonicalCatchup(o, Interest, retained)
    BY <1>15
  <2> DEFINE own == [start |-> Num[retained], end |-> None, anchor |-> None]
             global == [start |-> Num[retained] + 1, end |-> None, anchor |-> retained]
  <2>2. retained \in Block /\ Num[retained] \in Nat
    BY <1>1, ChainAssumption, Zenon
  <2>3. own \in SubscriberBackfill /\ global \in SubscriberBackfill
    BY <2>2 DEF SubscriberBackfill, OptBlock
  <2>4. ApplyCandidate([base |-> T.base, global |-> global,
                        owners |-> WithOwner(o, [interests |-> Interest, backfill |-> own])],
                       FALSE)
    BY <2>1, Zenon DEF AddInterestOwnerWithCanonicalCatchup, T
  <2> HIDE DEF own, global
  <2>5. global \in OptBackfill /\ [interests |-> Interest, backfill |-> own] \in Registration
    BY <1>3, <1>6, <2>3, Zenon DEF OptBackfill
  <2> QED
    BY <1>12, <2>4, <2>5, Zenon
<1>16. CASE \E o \in Owner : RemoveInterestOwner(o)
  <2>1. PICK o \in Owner : RemoveInterestOwner(o)
    BY <1>16
  <2> DEFINE f == [p \in DOMAIN T.owners \ {o} |-> T.owners[p]]
  <2>2. f \in [DOMAIN T.owners \ {o} -> Registration] /\ DOMAIN T.owners \ {o} \in SUBSET Owner
    BY <1>2
  <2>3. ApplyCandidate([base |-> T.base, global |-> None, owners |-> f], FALSE)
    BY <2>1, Zenon DEF RemoveInterestOwner, T
  <2> HIDE DEF f
  <2>4. IsTopology([base |-> T.base, global |-> None, owners |-> f])
    BY <1>2, <1>3, <2>2, BuildsTopology, Zenon
  <2> QED
    BY <1>1, <2>3, <2>4, ApplyCandidateKeeps, Zenon
<1> QED
  BY <1>7, <1>8, <1>10, <1>11, <1>13, <1>14, <1>15, <1>16 DEF Lifecycle

(***************************************************************************)
(* The theorems                                                            *)
(***************************************************************************)
LEMMA SubscriberInit == Init => SubscriberInv
<1> SUFFICES ASSUME Init PROVE SubscriberInv
  OBVIOUS
<1>1. /\ env \in Environments /\ row = EmptyRow /\ sub = NewAtRevision(0) /\ reach = 0
  BY Zenon DEF Init
<1>2. IsRow(row) /\ row.revision = 0 /\ row.desired = None /\ row.acked = None
      /\ row.pending = None
  BY <1>1, Zenon DEF EmptyRow, IsRow
<1>3. /\ IsSubscriber(sub) /\ sub.rev = 0 /\ sub.topology = NoTopology /\ sub.candidate = None
      /\ sub.neutral = None /\ sub.cursor = None /\ sub.dcursor = None
  BY <1>1, Zenon DEF NewAtRevision, IsSubscriber
<1>4. RowOK(row, reach)
  BY <1>1, <1>2 DEF RowOK, AtRevision
<1>5. /\ LagOK(sub, row) /\ CursorOK(sub, row, reach) /\ CandidateOK(sub) /\ RevisionOK(sub, row)
      /\ MirrorOK(sub, row, reach) /\ Settled(sub)
  BY <1>2, <1>3, EmptyTopology, Zenon DEF LagOK, CursorOK, CandidateOK, RevisionOK, MirrorOK, Settled
<1> QED
  BY <1>1, <1>3, <1>4, <1>5 DEF SubscriberInv, SubscriberOK, UnsettledOK

LEMMA SubscriberStep == SubscriberInv /\ [Next]_vars => SubscriberInv'
<1> SUFFICES ASSUME SubscriberInv, [Next]_vars PROVE SubscriberOK(sub, row, reach)'
  BY DEF SubscriberInv, Next, vars
<1>1. SubscriberOK(sub, row, reach)
  BY DEF SubscriberInv
<1>2. ASSUME Lifecycle PROVE SubscriberOK(sub, row, reach)'
  BY <1>2, LifecycleKeeps
<1>3. ASSUME NEW height \in env.heights, CandidateApplied(height) \/ CandidateUncertain(height)
      PROVE  SubscriberOK(sub, row, reach)'
  <2>1. height \in Nat
    BY SubscriberAssumption DEF SubscriberInv
  <2> QED
    BY <1>1, <1>3, <2>1, CandidateKeeps
<1>4. ASSUME CandidateRejected PROVE SubscriberOK(sub, row, reach)'
  BY <1>1, <1>4, RejectionKeeps
<1>5. ASSUME SourceStep PROVE SubscriberOK(sub, row, reach)'
  BY <1>5, SourceKeeps
<1>6. ASSUME NextBatch PROVE SubscriberOK(sub, row, reach)'
  BY <1>1, <1>6, NextBatchKeeps
<1>7. ASSUME NeutralAcknowledged \/ NeutralUncertain PROVE SubscriberOK(sub, row, reach)'
  BY <1>1, <1>7, NeutralKeeps
<1>8. ASSUME DeliveryAcknowledged \/ DeliveryUncertain PROVE SubscriberOK(sub, row, reach)'
  BY <1>1, <1>8, DeliveryKeeps
<1>9. ASSUME RestorePosition PROVE SubscriberOK(sub, row, reach)'
  BY <1>1, <1>9, RestoreKeeps
<1>10. ASSUME Connect PROVE SubscriberOK(sub, row, reach)'
  <2>1. sub' = NewFromAuthoritative /\ row' = row /\ reach' = reach
    BY <1>10, Zenon DEF Connect
  <2>2. SubscriberOK(NewFromAuthoritative, row, reach)
    BY <1>1, ConnectedIsSound DEF SubscriberOK, UnsettledOK
  <2> QED
    BY <2>1, <2>2
<1>11. ASSUME UNCHANGED <<sub, row, reach>> PROVE SubscriberOK(sub, row, reach)'
  BY <1>1, <1>11
<1>12. Ingest \/ UNCHANGED vars => UNCHANGED <<sub, row, reach>>
  BY DEF Ingest, vars
<1> QED
  BY <1>2, <1>3, <1>4, <1>5, <1>6, <1>7, <1>8, <1>9, <1>10, <1>11, <1>12, Zenon DEF Next

\* The inductive invariant holds: the mirror, the row and how far it was
\* acknowledged fit together.
THEOREM SubscriberIsSound == Spec => []SubscriberInv
  BY SubscriberInit, SubscriberStep, PTL DEF Spec

\* The mirror is what the service has committed, or the service has committed
\* the candidate that is still pending (commit_candidate,
\* reconcile_pending_candidate), however answers, calls and restarts interleave.
THEOREM MirrorFollows == Spec => []MirrorFollowsRow
<1>1. SubscriberInv => MirrorFollowsRow
  <2> SUFFICES ASSUME SubscriberOK(sub, row, reach) PROVE MirrorFollowsRow
    BY DEF SubscriberInv
  <2>1. RevisionOK(sub, row) /\ MirrorOK(sub, row, reach)
    BY Zenon DEF SubscriberOK, UnsettledOK
  <2>2. ASSUME sub.rev = row.revision, row.desired # None
        PROVE  Registered(sub.topology) = Registered(DecodeAuthoritativeDesiredState(row.desired))
    <3>1. Within(sub.topology, DecodeAuthoritativeDesiredState(row.desired), row, reach)
      BY <2>1, <2>2 DEF MirrorOK
    <3> QED
      BY <3>1, Zenon DEF Within, Registered
  <2> QED
    BY <2>1, <2>2 DEF RevisionOK, MirrorFollowsRow
<1> QED
  BY <1>1, SubscriberIsSound, PTL

\* A revision other than a replacement of everything follows another one only
\* when each of its backfills was acknowledged to its end: the fence of
\* apply_candidate is not opened by a lost answer or a restart.
THEOREM BackfillsAreFinished == Spec => BackfillNotAbandoned
<1> DEFINE Finished ==
             row'.revision # row.revision /\ row.desired # None /\ ~sub.candidate.supersedes =>
                \A b \in OpenBackfills(DecodeAuthoritativeDesiredState(row.desired)) : Covered(b)
<1>1. ASSUME SubscriberInv, [Next]_vars PROVE Finished
  <2> SUFFICES ASSUME row'.revision # row.revision, row.desired # None,
                      ~sub.candidate.supersedes,
                      NEW b \in OpenBackfills(DecodeAuthoritativeDesiredState(row.desired))
               PROVE  Covered(b)
    OBVIOUS
  <2> DEFINE asked == DecodeAuthoritativeDesiredState(row.desired)
  <2>1. SubscriberOK(sub, row, reach) /\ IsRow(row)
    BY <1>1, Zenon DEF SubscriberInv, SubscriberOK, UnsettledOK, RowOK
  <2>2. \A d : SaveRow(row, d).revision = row.revision
    BY <2>1 DEF SaveRow, IsRow
  <2>3. AckRow(row).revision = row.revision
    BY <2>1 DEF AckRow, IsRow
  <2>4. \A seq : AcknowledgementReaches(seq) => row'.revision = row.revision
    BY <2>3, Zenon DEF AcknowledgementReaches
  <2>5. PICK height \in env.heights : CandidateApplied(height) \/ CandidateUncertain(height)
    <3>1. ~(Ingest \/ UNCHANGED vars \/ Connect \/ RestorePosition \/ NextBatch
            \/ CandidateRejected)
      BY Zenon DEF Ingest, vars, Connect, RestorePosition, NextBatch, CandidateRejected
    <3>2. ~Lifecycle
      BY Zenon DEF Lifecycle, RegisterInterests, UpsertInterestOwners, ReplaceInterestOwners,
             ReplaceInterestOwnersWithGlobalBackfill, AddInterestOwner,
             AddInterestOwnerWithBackfill, AddInterestOwnerWithCanonicalCatchup,
             RemoveInterestOwner, ApplyCandidate
    <3>3. ~SourceStep
      BY <2>2, Zenon DEF SourceStep, SourceDelivers
    <3>4. ~(NeutralAcknowledged \/ NeutralUncertain \/ DeliveryAcknowledged \/ DeliveryUncertain)
      BY <2>4 DEF NeutralAcknowledged, NeutralUncertain, DeliveryAcknowledged, DeliveryUncertain
    <3> QED
      BY <1>1, <3>1, <3>2, <3>3, <3>4 DEF Next
  <2>6. height \in Nat
    BY <1>1, <2>5, SubscriberAssumption, Zenon DEF SubscriberInv
  <2>7. sub.candidate # None /\ CandidateReaches(sub.candidate.request, height)
    BY <2>5, Zenon DEF CandidateApplied, CandidateUncertain
  <2>8. row.revision = sub.rev
    BY <2>1, <2>6, <2>7, CandidateReachesRow
  <2>9. OpenBackfills(sub.topology) = {}
    BY <2>1, <2>7, Zenon DEF SubscriberOK, UnsettledOK, CandidateOK, HasIncompleteBackfill
  <2>10. Within(sub.topology, asked, row, reach)
    BY <2>1, <2>8, Zenon DEF SubscriberOK, UnsettledOK, MirrorOK
  <2>11. sub.topology.global = None /\ \A o \in DOMAIN sub.topology.owners :
            sub.topology.owners[o].backfill = None
    BY <2>9, Zenon DEF OpenBackfills
  <2>12. \A c : Slot(None, c, row, reach) /\ c # None => Covered(c)
    BY Zenon DEF Slot, CoveredBy, Covered
  <2>13. b # None /\ (b = asked.global \/ \E o \in DOMAIN asked.owners : b = asked.owners[o].backfill)
    BY Zenon DEF OpenBackfills
  <2>14. Slot(None, b, row, reach)
    BY <2>10, <2>11, <2>13 DEF Within
  <2> QED
    BY <2>12, <2>13, <2>14, Zenon
<1>2. SubscriberInv /\ [Next]_vars => Finished
  BY <1>1
<1>3. Finished => [Finished]_vars
  OBVIOUS
<1> HIDE DEF Finished
<1>4. Spec => [][Finished]_vars
  BY <1>2, SubscriberIsSound, PTL DEF Spec
<1> QED
  BY <1>4, Zenon DEF BackfillNotAbandoned, Finished

LEMMA MirrorsAgree ==
    ASSUME NEW b \in OptBackfill, NEW asked \in OptBackfill, Slot(b, asked, row, reach),
           AtRevision(row), reach = row.acked.next, RemainingBackfill(b, row.acked) = b
    PROVE  RemainingBackfill(asked, row.acked) = b
<1>1. CASE b = asked
  BY <1>1, Zenon
<1>2. CASE b # asked
  BY <1>2 DEF Slot, CoveredBy, RemainingBackfill
<1> QED
  BY <1>1, <1>2

\* A subscriber that has reconciled everything and one that connects anew have
\* the same mirror (new_from_authoritative): no restart loses a registration or
\* opens a backfill that was complete, unless a reorg took the cursor back.
THEOREM RestartsKeepMirror == Spec => []RestartKeepsMirror
<1>1. ASSUME SubscriberInv PROVE RestartKeepsMirror
  <2> SUFFICES ASSUME Reconciled, sub.cursor = row.acked,
                      row.acked # None => reach = row.acked.next
               PROVE  NewFromAuthoritative.rev = sub.rev
                      /\ NewFromAuthoritative.topology = sub.topology
    BY DEF RestartKeepsMirror
  <2> DEFINE x == NewFromAuthoritative
  <2>1. /\ SubscriberOK(sub, row, reach) /\ sub.rev = row.revision /\ IsTopology(sub.topology)
        /\ RowOK(row, reach)
    BY <1>1, Zenon DEF SubscriberInv, SubscriberOK, UnsettledOK, RevisionOK, MirrorOK, Reconciled
  <2> DEFINE t == IF row.desired = None THEN NoTopology
                  ELSE DecodeAuthoritativeDesiredState(row.desired)
             u == IF AtRevision(row) THEN CompletedTopology(t, row.acked) ELSE t
  <2>2. x.rev = row.revision /\ x.topology = u
    BY Zenon DEF NewFromAuthoritative, RestoreTransportAuthority, MaybeCompleteBackfill, NewAtRevision,
           AtRevision
  <2>3. IsTopology(t) /\ Within(sub.topology, t, row, reach)
    <3>1. CASE row.desired = None
      BY <2>1, <3>1, EmptyTopology, Zenon
      DEF SubscriberOK, UnsettledOK, MirrorOK, Within, Slot, NoTopology, NoOwners
    <3>2. CASE row.desired # None
      BY <2>1, <3>2, Zenon DEF SubscriberOK, UnsettledOK, MirrorOK, RowOK
    <3> QED
      BY <3>1, <3>2
  <2> HIDE DEF x, t
  <2>4. CASE AtRevision(row)
    <3>1. /\ IsTopology(u) /\ u.base = t.base /\ u.global = RemainingBackfill(t.global, row.acked)
          /\ DOMAIN u.owners = DOMAIN t.owners
          /\ \A o \in DOMAIN t.owners :
                /\ u.owners[o].interests = t.owners[o].interests
                /\ u.owners[o].backfill = RemainingBackfill(t.owners[o].backfill, row.acked)
      BY <2>3, <2>4, CompletedFields
    <3> DEFINE m == CompletedTopology(sub.topology, row.acked)
    <3>2. m = sub.topology
      BY <2>1, <2>4, Zenon DEF SubscriberOK, Settled, AtRevision
    <3>3. /\ m.global = RemainingBackfill(sub.topology.global, row.acked)
          /\ \A o \in DOMAIN sub.topology.owners :
                m.owners[o].backfill = RemainingBackfill(sub.topology.owners[o].backfill, row.acked)
      BY <2>1, CompletedFields
    <3> HIDE DEF m, u
    <3>4. reach = row.acked.next
      BY <2>4 DEF AtRevision
    <3>5. u.global = sub.topology.global
      <4>1. sub.topology.global \in OptBackfill /\ t.global \in OptBackfill
        BY <2>1, <2>3, Zenon DEF IsTopology
      <4>2. Slot(sub.topology.global, t.global, row, reach)
        BY <2>3, Zenon DEF Within
      <4> QED
        BY <2>4, <3>1, <3>2, <3>3, <3>4, <4>1, <4>2, MirrorsAgree, Zenon
    <3>6. ASSUME NEW o \in DOMAIN u.owners
          PROVE  /\ u.owners[o].interests = sub.topology.owners[o].interests
                 /\ u.owners[o].backfill = sub.topology.owners[o].backfill
      <4>1. o \in DOMAIN t.owners /\ o \in DOMAIN sub.topology.owners
        BY <2>3, <3>1, Zenon DEF Within
      <4>2. t.owners[o] \in Registration /\ sub.topology.owners[o] \in Registration
        BY <2>1, <2>3, <4>1 DEF IsTopology
      <4>3. t.owners[o].backfill \in OptBackfill /\ sub.topology.owners[o].backfill \in OptBackfill
        BY <4>2, Zenon DEF Registration
      <4>4. /\ Slot(sub.topology.owners[o].backfill, t.owners[o].backfill, row, reach)
            /\ sub.topology.owners[o].interests = t.owners[o].interests
        BY <2>3, <4>1, Zenon DEF Within
      <4>5. RemainingBackfill(t.owners[o].backfill, row.acked) = sub.topology.owners[o].backfill
        BY <2>4, <3>2, <3>3, <3>4, <4>1, <4>3, <4>4, MirrorsAgree
      <4> QED
        BY <3>1, <4>1, <4>4, <4>5, Zenon
    <3>7. u = sub.topology
      <4>1. u.base = sub.topology.base /\ DOMAIN u.owners = DOMAIN sub.topology.owners
        BY <2>3, <3>1, Zenon DEF Within
      <4> QED
        BY <2>1, <3>1, <3>5, <3>6, <4>1, TopologiesEqual, Zenon
    <3> QED
      BY <2>1, <2>2, <3>7, Zenon DEF x
  <2>5. CASE ~AtRevision(row)
    <3>1. u = t
      BY <2>5, Zenon
    <3>2. t = sub.topology
      BY <2>1, <2>3, <2>5, TopologiesEqual DEF Within, Slot
    <3> QED
      BY <2>1, <2>2, <3>1, <3>2 DEF x
  <2> QED
    BY <2>4, <2>5
<1> QED
  BY <1>1, SubscriberIsSound, PTL
=============================================================================
