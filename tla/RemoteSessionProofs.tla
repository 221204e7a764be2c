------------------------ MODULE RemoteSessionProofs -------------------------
(***************************************************************************)
(* Theorems about RemoteSession, for every number of streams, every chain  *)
(* and every bound: the service's part of it is EventService, client and   *)
(* service together implement the event feed, and a client that crashes is *)
(* always taken back at the position it saved.                             *)
(*                                                                         *)
(* What is proved of EventService (EventServiceProofs) yields what the     *)
(* steps of the client and of the tasks assume of it (SessionBase,         *)
(* RowMoves, OffersTyped).                                                 *)
(***************************************************************************)
EXTENDS SessionTaskProofs, EventServiceProofs

(***************************************************************************)
(* What the service gives                                                  *)
(***************************************************************************)
LEMMA RowIsSound ==
    ASSUME ServiceBase
    PROVE  RowSound
<1>1. /\ Row \in RowType /\ RowInv(Row) /\ History \in Seq(DeliveryType)
      /\ GaplessSequence!(TheSession) /\ SequencesInv!(TheSession)
  BY OneSession, Zenon
  DEF ServiceBase, HistoryBase, HistoryInv, HistoryType, RowsInv, GaplessSequence,
      SequencesInv, Row, History
<1>2. AckedSequence(Row) = Len(History) /\ AckedSequence(Row) \in 0..MaxSequence
  <2>1. AckedSequence(Row) = Len(History)
    BY <1>1, Zenon DEF Row, History
  <2>2. CASE Len(History) = 0
    BY <2>1, <2>2, BoundAssumption
  <2>3. CASE Len(History) # 0
    <3>1. Len(History) \in DOMAIN History /\ Len(History) \in Nat
      BY <1>1, <2>3
    <3>2. History[Len(History)] \in DeliveryType /\ History[Len(History)].seq = Len(History)
      BY <1>1, <3>1 DEF History
    <3> QED
      BY <2>1, <3>1, <3>2 DEF DeliveryType
  <2> QED
    BY <2>2, <2>3
<1>3. Row.pending # None =>
          /\ Row.pending \in DeliveryType /\ Row.pending.seq = AckedSequence(Row) + 1
          /\ Row.pending.cursor.seq = Row.pending.seq
  BY <1>1, OutboxItemFacts DEF AcknowledgedItem, NextSequence
<1>4. Row.pending # None => Row.pending.token = Token(Row.pending.seq)
  <2>1. Row.pending # None => ValidatePending(Row)
    BY <1>1, OutboxItemFacts, ZenonT(30) DEF AcknowledgedItem, RowInv, ValidatePersistedSession
  <2> QED
    BY <2>1, Zenon DEF ValidatePending
<1> QED
  BY <1>1, <1>2, <1>3, <1>4 DEF Row, History, RowSound, RowInv

LEMMA LastIsVisible ==
    ASSUME ServiceBase
    PROVE  LastVisible
<1> SUFFICES ASSUME History # <<>>, ~History[Len(History)].neutral
             PROVE  Row.runtime = History[Len(History)].cursor
  BY Zenon DEF LastVisible
<1>1. RuntimeAuthority!(TheSession) /\ History \in Seq(DeliveryType)
  BY OneSession, RowIsSound, Zenon
  DEF ServiceBase, HistoryBase, HistoryInv, RuntimeAuthority, RowSound
<1>2. Len(History) \in DOMAIN History /\ DOMAIN History = 1..Len(History) /\ Len(History) \in Nat
  BY <1>1
<1>3. PICK i \in DOMAIN History : /\ Row.runtime = History[i].cursor
                                  /\ \A j \in (i + 1)..Len(History) : History[j].neutral
  BY <1>1, <1>2, Zenon DEF Row, History
<1>4. ~(i < Len(History))
  <2> SUFFICES ASSUME i < Len(History) PROVE FALSE
    BY Zenon
  <2>1. Len(History) \in (i + 1)..Len(History)
    BY <1>2, <1>3
  <2> QED
    BY <1>3, <2>1, Zenon
<1> QED
  BY <1>2, <1>3, <1>4

LEMMA StoreMovesRow ==
    ASSUME ServiceBase, [Next]_vars
    PROVE  RowMoves
<1> SUFFICES RowStays \/ RowOffers \/ RowAcks
  BY Zenon DEF RowMoves
<1>1. SessionStep(TheSession) /\ Row \in RowType
  BY SessionSteps, OneSession, RowIsSound DEF ServiceBase, RowSound
<1>2. CASE Untouched(TheSession) \/ ReplayStep(TheSession)
  BY <1>2, Zenon DEF Untouched, ReplayStep, RowStays, Row, History
<1>3. ASSUME NEW request \in Requests, NEW prepared \in Cursor \cup {None},
             ApplyStep(TheSession, request, prepared)
      PROVE  RowOffers
  <2>1. ActivationDelivery(Row, request, prepared) \in DeliveryType
    <3>1. HasNextSequence(Row)
      BY <1>3, Zenon DEF ApplyStep, ApplyAccepts, NoConflict, Row
    <3> QED
      BY <1>1, <3>1, ActivationDeliveryType, Zenon
  <2>2. ActivationDelivery(Row, request, prepared) # None
    BY <2>1, NoneAssumption
  <2> QED
    BY <1>1, <1>3, <2>1, <2>2, SMTT(30)
    DEF ApplyStep, ApplyAccepts, NoConflict, ApplyRow, RowType, RowOffers, Row, History
<1>4. ASSUME NEW d \in DeliveryType, SaveStep(TheSession, d)
      PROVE  RowOffers
  BY <1>1, <1>4, NoneAssumption, SMTT(30)
  DEF SaveStep, SaveAccepts, SaveRow, RowType, RowOffers, Row, History
<1>5. CASE AckStep(TheSession)
  BY <1>1, <1>5, SMTT(30) DEF AckStep, AckAccepts, AckRow, RowType, RowAcks, Row, History
<1> QED
  BY <1>1, <1>2, <1>3, <1>4, <1>5, Zenon DEF SessionStep

\* A task that holds the session does so alone, and what it cached is true.
LEMMA TasksAreSound ==
    ASSUME ServiceBase, StateInv, NEW c \in Stream, streams[c].phase \in Holding
    PROVE  TaskSound(c)
<1>1. /\ streams[c].session \in Session /\ PhaseOK(streams[c])
      /\ StateOK(streams[c], rows[streams[c].session], source[streams[c].session])
  BY HandlerState, Zenon DEF StateInv
<1>2. streams[c].session = TheSession
  BY <1>1, OneSession
<1>3. ASSUME NEW e \in Stream \ {c} PROVE streams[e].phase \notin Holding
  <2>1. streams[e].session # TheSession
    BY <1>2, OneSession, ServiceAssumption DEF ServiceBase, FenceInv, LeaseExclusive
  <2>2. PhaseOK(streams[e])
    BY Zenon DEF ServiceBase, ServiceTypes, PhaseInv
  <2> QED
    BY <2>1, <2>2, OneSession DEF PhaseOK
<1> QED
  BY <1>1, <1>2, <1>3 DEF TaskSound, PhaseOK, StateOK, Coherent, Row

LEMMA ServiceGivesBase == ServiceBase /\ StateInv => SessionBase
<1> SUFFICES ASSUME ServiceBase, StateInv PROVE SessionBase
  BY Zenon
<1>1. DOMAIN rows = Session /\ streams \in [Stream -> StreamType]
  BY Zenon DEF ServiceBase, HistoryBase, TypeOK, ServiceTypes
<1> QED
  BY <1>1, RowIsSound, LastIsVisible, TasksAreSound, Zenon DEF SessionBase

\* A step of client and service is one of the service, which keeps its
\* invariants and moves the row as the client may rely on.
LEMMA ServiceSide ==
    ASSUME ServiceBase, StateInv, SessionTypes, [SessionNext]_sessionVars
    PROVE  /\ ServiceBase' /\ StateInv' /\ SessionBase /\ SessionBase'
           /\ RowMoves /\ OffersTyped
<1>1. [ServiceNext]_serviceVars
  BY SessionIsService, Zenon
<1>2. ServiceBase' /\ StateInv' /\ [Next]_vars
  BY <1>1, ServiceBaseStep, StateStep
<1>3. SessionBase /\ SessionBase'
  <2>1. (ServiceBase /\ StateInv)' => SessionBase'
    BY ServiceGivesBase, PTL
  <2> QED
    BY <1>2, <2>1, ServiceGivesBase
<1>4. OffersTyped
  BY SavedDelivery, Zenon DEF OffersTyped
<1> QED
  BY <1>2, <1>3, <1>4, StoreMovesRow

SessionSound == ServiceBase /\ StateInv /\ SessionInv

LEMMA SessionSoundInit == SessionInit => SessionSound
  BY ServiceBaseInit, ServiceGivesBase, FirstState DEF SessionInit, SessionSound

LEMMA SessionSoundStep ==
    ASSUME SessionSound, [SessionNext]_sessionVars
    PROVE  SessionSound' /\ [ServiceNext]_serviceVars /\ [Feed!FeedNext]_Feed!feedVars
<1>1. SessionInv /\ SessionTypes /\ ServiceBase /\ StateInv
  BY Zenon DEF SessionSound, SessionInv
<1>2. /\ ServiceBase' /\ StateInv' /\ SessionBase /\ SessionBase' /\ RowMoves /\ OffersTyped
  BY <1>1, ServiceSide, Zenon
<1> QED
  BY <1>1, <1>2, SessionKeeps, FeedStep, SessionIsService DEF SessionSound

LEMMA SessionAlways == SessionSpec => []SessionSound
  BY SessionSoundInit, SessionSoundStep, PTL DEF SessionSpec

-----------------------------------------------------------------------------
\* The service's part of a session is the service: what is proved of
\* EventService, whose clients may send anything, holds of a service whose
\* client is RemoteTransport (lib.rs) and whose streams break.
THEOREM SessionImplementsService == SessionSpec => ServiceSpec
<1>1. SessionInit => ServiceInit
  BY Zenon DEF SessionInit
<1>2. SessionSound /\ [SessionNext]_sessionVars => [ServiceNext]_serviceVars
  BY SessionSoundStep, Zenon
<1> QED
  BY <1>1, <1>2, SessionAlways, PTL DEF SessionSpec, ServiceSpec

\* A client that crashes can always come back: validate_hello_position
\* confirms the position it saved last, or none if it saved none.
THEOREM RestartIsAccepted == SessionSpec => []RestartAccepted
<1>1. SessionSound => RestartAccepted
  BY ServiceGivesBase, SavedIsConfirmed DEF SessionSound
<1> QED
  BY <1>1, SessionAlways, PTL

\* Whatever breaks, the runtime sees a feed: every delivery that has effects is
\* taken exactly once and in order, and the store goes on to the next one only
\* when the effects of the last are saved or it has none.
THEOREM SessionImplementsFeed == SessionSpec => ImplementsFeed
<1>1. SessionInit => Feed!FeedInit
  <2> SUFFICES ASSUME SessionInit PROVE Feed!FeedInit
    BY Zenon
  <2>1. log[TheSession] = <<>> /\ Row.pending = None /\ ingested = <<>>
    BY OneSession, Zenon DEF SessionInit, ServiceInit, Init, EmptyRow, Row
  <2> QED
    BY <2>1 DEF Feed!FeedInit
<1>2. SessionSound /\ [SessionNext]_sessionVars => [Feed!FeedNext]_Feed!feedVars
  BY SessionSoundStep
<1> QED
  BY <1>1, <1>2, SessionAlways, PTL DEF SessionSpec, ImplementsFeed, Feed!FeedSpec
=============================================================================
