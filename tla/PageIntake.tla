---------------------------- MODULE PageIntake -----------------------------
(***************************************************************************)
(* The source engine's intake of provider pages: any page may arrive for   *)
(* any committed desired state and activation block; an admitted one is    *)
(* normalised into a delivery payload.                                     *)
(***************************************************************************)
EXTENDS SourcePages

CONSTANTS
    Pages,          \* pages a provider may answer with
    DesiredStates,  \* committed desired states
    From, To        \* the queried range

VARIABLES
    desired,     \* the committed desired state
    activation,  \* its activation block
    page         \* the admitted page, None before one arrives

intakeVars == <<desired, activation, page>>

IntakeInit ==
    /\ desired \in {d \in DesiredStates : ValidateDesiredState(d)}
    /\ activation \in From..To
    /\ page = None

ReceivePage ==
    /\ page = None
    /\ \E p \in Pages : AdmitPage(p, From, To) /\ page' = p
    /\ UNCHANGED <<desired, activation>>

IntakeSpec == IntakeInit /\ [][ReceivePage]_intakeVars

Emitted == Records(desired, page, activation)

(***************************************************************************)
(* Properties                                                              *)
(***************************************************************************)
\* Whatever a provider answers, a page the engine admits normalises to
\* records the session store accepts (validate_delivery_payload): ordered,
\* free of duplicates, consistent in their identities, addressed to owners
\* that exist and certified by a canonical block; and the head its cursor will
\* carry is the last block they certify.  The two sides check rows independently;
\* a page that passes one and not the other stops the session.
AdmittedPagesDeliverable ==
    page # None =>
        /\ Emitted # <<>> => ValidateData(desired, Emitted)
        /\ PageHead(desired, page, activation) = LastCertified(Emitted)

\* Every log an owner asked for, in a block it is active at, reaches it: in a
\* record addressed to it or to the shared canonical audience.
WantedLogsReachOwners ==
    page # None =>
        \A i \in DOMAIN page.logs, o \in desired.owners :
            /\ \E interest \in o.wants : LogMatches(interest, page.logs[i])
            /\ OwnerActive(desired, o, page.logs[i].number, activation)
            => \E k \in DOMAIN Emitted :
                  /\ Emitted[k].event = "log"
                  /\ Emitted[k].block = page.logs[i].hash /\ Emitted[k].index = page.logs[i].index
                  /\ Emitted[k].canonical \/ o.id \in Emitted[k].owners

\* Before the activation block only the owners whose backfill covers a block
\* see it: another owner's history is never replayed to an owner, or to the
\* canonical audience, that already consumed it.
BackfillIsolated ==
    page # None =>
        \A k \in DOMAIN Emitted :
            LET r == Emitted[k]
                n == Num[r.block]
            IN  n < activation /\ ~GlobalBackfillActive(desired, n) =>
                    /\ ~r.canonical
                    /\ \A o \in desired.owners : o.id \in r.owners => InBackfill(o, n)

\* A log reaches the owners that asked for it and nobody who has consumed its
\* block already, on both sides of the activation block and at both ends of
\* every backfill range (normalize_page_at).
LogsReachTheirOwners == WantedLogsReachOwners /\ BackfillIsolated
=============================================================================
