------------------------ MODULE SessionClientProofs -------------------------
(***************************************************************************)
(* Every step of the client keeps the invariant of RemoteSession: a call,  *)
(* a message sent or read, a lost stream, a crash, a dial and its answer,  *)
(* and a delivery taken in.  A step of the service that moves the row, or  *)
(* answers on a stream, leaves true what the client knows.                 *)
(***************************************************************************)
EXTENDS SessionInvariant, TLAPS

LEMMA OneSession == TheSession \in Session /\ Session = {TheSession}
  BY SessionAssumption DEF TheSession

\* A token and its sequence determine each other (two digits of base 256).
LEMMA TokenOfSequence ==
    ASSUME NEW n \in Nat
    PROVE  TokenSequence(Token(n)) = n
<1>1. n = 256 * (n \div 256) + (n % 256)
  OBVIOUS
<1> QED
  BY <1>1 DEF TokenSequence, Token

LEMMA RowFacts == SessionBase => RowSound
  BY DEF SessionBase

LEMMA RowFactsNext == SessionBase' => RowSound'
  BY DEF SessionBase

LEMMA AckSequences ==
    ASSUME NEW tr \in TransportType
    PROVE  tr.ackseq \in 0..MaxSequence /\ tr.ackseq <= tr.ackseq
<1>1. tr.ackseq \in 0..MaxSequence
  BY DEF TransportType
<1> QED
  BY <1>1, BoundAssumption

\* The last delivery the client took in is a delivery.
LEMMA LastIngested ==
    ASSUME ingested \in Seq(DeliveryType), ingested # <<>>
    PROVE  /\ ingested[Len(ingested)] \in DeliveryType /\ ingested[Len(ingested)] # None
           /\ ingested[Len(ingested)].seq \in Nat
<1>1. ingested[Len(ingested)] \in DeliveryType
  OBVIOUS
<1>2. None \notin DeliveryType
  BY NoneAssumption
<1> HIDE DEF DeliveryType
<1>3. ingested[Len(ingested)] # None
  BY <1>1, <1>2, Zenon
<1>4. \A d \in DeliveryType : d.seq \in Nat
  BY DEF DeliveryType
<1> QED
  BY <1>1, <1>3, <1>4, Zenon

\* What is in transit has its type.
LEMMA TransitTypes ==
    ASSUME SessionTypes, NEW c \in Stream
    PROVE  /\ \A i \in DOMAIN net[c].up :
                 net[c].up[i].kind = "ack" => net[c].up[i].ack.seq \in Nat
           /\ \A i \in DOMAIN net[c].down :
                 /\ net[c].down[i].kind = "committed" => net[c].down[i].seq \in Nat
                 /\ net[c].down[i].kind = "delivery" => net[c].down[i].d \in DeliveryType
<1>1. net[c].up \in Seq(RequestType) /\ net[c].down \in Seq(AnswerType)
  BY DEF SessionTypes, ChannelType
<1>2. ASSUME NEW m \in RequestType, m.kind = "ack" PROVE m.ack.seq \in Nat
  BY <1>2 DEF RequestType, HelloType, Acknowledgements
<1>3. ASSUME NEW m \in AnswerType
      PROVE  /\ m.kind = "committed" => m.seq \in Nat
             /\ m.kind = "delivery" => m.d \in DeliveryType
  BY <1>3 DEF AnswerType, DeliveryAnswer
<1>4. /\ \A i \in DOMAIN net[c].up : net[c].up[i] \in RequestType
      /\ \A i \in DOMAIN net[c].down : net[c].down[i] \in AnswerType
  BY <1>1
<1> QED
  BY <1>2, <1>3, <1>4, Zenon

(***************************************************************************)
(* Steps of the client                                                     *)
(***************************************************************************)
\* Nothing is added to what is in transit, and no stream comes to life.
NetShrinks ==
    \A e \in Stream :
        /\ Len(net'[e].up) <= Len(net[e].up)
        /\ \A i \in DOMAIN net'[e].up : \E j \in DOMAIN net[e].up : net'[e].up[i] = net[e].up[j]
        /\ \A i \in DOMAIN net'[e].down :
              \E j \in DOMAIN net[e].down : net'[e].down[i] = net[e].down[j]
        /\ ~net'[e].live => net'[e].down = <<>>
        /\ net'[e].live => net[e].live /\ client'.conn = client.conn

\* The stream in use, if any, is the one in use before.
LinkStays ==
    /\ client'.link # "down" => client'.link = client.link /\ client'.conn = client.conn
    /\ client'.link = "dialing" => client'.hello = client.hello

\* A step of the client that opens no stream, sends nothing and saves nothing.
LEMMA LocalKeeps ==
    ASSUME SessionInv, UNCHANGED <<serviceVars, saved, ingested>>,
           NetShrinks, LinkStays, SessionTypes', CallInv',
           Ready' => /\ Ready /\ t.ackseq <= t'.ackseq
                     /\ Standing(t', Row, History, saved, ingested)
    PROVE  SessionInv'
<1>1. /\ UNCHANGED <<streams, rows, log, saved, ingested>> /\ Row' = Row /\ History' = History
  BY DEF serviceVars, vars, Row, History
<1>2. ChannelInv'
  <2>1. ASSUME NEW e \in Stream, streams[e].phase \in {"open", "acquired"}
        PROVE  /\ Len(net'[e].up) <= 1
               /\ \A i \in DOMAIN net'[e].up : net'[e].up[i].kind = "hello"
    <3>1. /\ Len(net[e].up) <= 1 /\ \A i \in DOMAIN net[e].up : net[e].up[i].kind = "hello"
      BY <2>1, Zenon DEF SessionInv, ChannelInv
    <3>2. net[e].up \in Seq(RequestType) /\ net'[e].up \in Seq(RequestType)
      BY Zenon DEF SessionInv, SessionTypes, ChannelType
    <3> QED
      BY <3>1, <3>2 DEF NetShrinks
  <2>2. ASSUME NEW e \in Stream
        PROVE  (~net'[e].live => net'[e].down = <<>>) /\ (net'[e].live => e = client'.conn)
    BY DEF NetShrinks, SessionInv, ChannelInv
  <2>3. client'.link = "up" => streams[client'.conn].phase \notin {"open", "acquired"}
    BY DEF SessionInv, ChannelInv, LinkStays
  <2> QED
    BY <1>1, <2>1, <2>2, <2>3, Zenon DEF ChannelInv
<1>3. TransitInv'
  BY <1>1, Zenon DEF SessionInv, TransitInv, NetShrinks
<1>4. ReachInv'
  <2> SUFFICES ASSUME Ready', NEW e \in Stream, streams[e].phase \in Holding,
                      NEW i \in DOMAIN net'[e].up, net'[e].up[i].kind = "ack"
               PROVE  net'[e].up[i].ack.seq <= t'.ackseq + 1
    BY <1>1, Zenon DEF ReachInv
  <2>1. PICK j \in DOMAIN net[e].up : net'[e].up[i] = net[e].up[j]
    BY Zenon DEF NetShrinks
  <2>2. net[e].up[j].ack.seq <= t.ackseq + 1
    BY <2>1, Zenon DEF SessionInv, ReachInv
  <2>3. net[e].up[j].ack.seq \in Nat /\ t.ackseq \in Nat /\ t'.ackseq \in Nat
    BY <2>1, TransitTypes DEF SessionInv, SessionTypes, TransportType
  <2> QED
    BY <2>1, <2>2, <2>3
<1>5. StandingInv' /\ SavedInv'
  BY <1>1, Zenon DEF SessionInv, StandingInv, SavedInv
<1>6. DialInv'
  <2> SUFFICES ASSUME client'.link = "dialing" PROVE DialInv'
    BY Zenon DEF DialInv
  <2>1. /\ client.link = "dialing" /\ client'.conn = client.conn /\ client'.hello = client.hello
        /\ client.conn \in Stream
    BY Zenon DEF LinkStays, SessionInv, SessionTypes
  <2>2. ASSUME NEW e \in Stream, Fresh(e) PROVE Fresh(e)'
    <3>1. net[e].up \in Seq(RequestType) /\ net'[e].up \in Seq(RequestType)
      BY DEF SessionInv, SessionTypes, ChannelType
    <3>2. net[e].up = <<>> => net'[e].up = <<>>
      BY <3>1 DEF NetShrinks
    <3> QED
      BY <1>1, <2>2, <3>2 DEF Fresh
  <2> DEFINE k == client.conn
             old == net[k].down
             new == net'[k].down
  <2>3. \A i \in DOMAIN new : \E j \in DOMAIN old : new[i] = old[j]
    BY <2>1, Zenon DEF NetShrinks
  <2>4. /\ client.hello.resume # None => Backed(TokenSequence(client.hello.resume.token), Row, saved)
        /\ Fresh(k)
        /\ \A j \in DOMAIN old : IsAccepted(old[j]) =>
              /\ \A c \in Stream : Fresh(c)
              /\ streams[k].phase \notin {"open", "acquired"}
              /\ old[j] = Accepted(Row)
    BY <2>1, Zenon DEF SessionInv, DialInv
  <2>5. \A i \in DOMAIN new : IsAccepted(new[i]) =>
              /\ \A c \in Stream : Fresh(c)
              /\ streams[k].phase \notin {"open", "acquired"}
              /\ new[i] = Accepted(Row)
    <3> HIDE DEF old, new
    <3> QED
      BY <2>3, <2>4, Zenon
  <2> QED
    BY <1>1, <2>1, <2>2, <2>4, <2>5, Zenon DEF DialInv
<1> QED
  BY <1>2, <1>3, <1>4, <1>5, <1>6, Zenon DEF SessionInv

\* The three things a client does to its stream without writing to it.
LEMMA QuietNet ==
    ASSUME SessionInv, UNCHANGED net, client'.conn = client.conn
    PROVE  NetShrinks /\ net' \in [Stream -> ChannelType]
<1>1. \A e \in Stream : net[e].up \in Seq(RequestType)
  BY DEF SessionInv, SessionTypes, ChannelType
<1> QED
  BY <1>1 DEF NetShrinks, SessionInv, SessionTypes, ChannelInv

LEMMA ReadNet ==
    ASSUME SessionInv, client.conn \in Stream, net[client.conn].down # <<>>,
           net' = [net EXCEPT ![client.conn].down = Tail(@)], client'.conn = client.conn
    PROVE  NetShrinks /\ net' \in [Stream -> ChannelType]
<1> DEFINE k == client.conn
<1>1. /\ net \in [Stream -> ChannelType] /\ net[k] \in ChannelType
      /\ \A e \in Stream : net[e].up \in Seq(RequestType)
      /\ net[k].down \in Seq(AnswerType)
  BY Zenon DEF SessionInv, SessionTypes, ChannelType
<1>2. /\ net' \in [Stream -> ChannelType] /\ \A e \in Stream \ {k} : net'[e] = net[e]
      /\ net'[k].up = net[k].up /\ net'[k].live = net[k].live
      /\ net'[k].down = Tail(net[k].down)
  <2> DEFINE n == [net[k] EXCEPT !.down = Tail(net[k].down)]
  <2>1. net' = [net EXCEPT ![k] = n] /\ Tail(net[k].down) \in Seq(AnswerType)
    BY <1>1
  <2>2. n \in ChannelType /\ n.up = net[k].up /\ n.live = net[k].live /\ n.down = Tail(net[k].down)
    BY <1>1, <2>1, Zenon DEF ChannelType
  <2> HIDE DEF n, k
  <2> QED
    BY <1>1, <2>1, <2>2, Zenon DEF k
<1>3. ASSUME NEW i \in DOMAIN net'[k].down
      PROVE  \E j \in DOMAIN net[k].down : net'[k].down[i] = net[k].down[j]
  <2>1. i + 1 \in DOMAIN net[k].down /\ net'[k].down[i] = net[k].down[i + 1]
    BY <1>1, <1>2, <1>3
  <2> QED
    BY <2>1, Zenon
<1>4. net[k].live
  BY DEF SessionInv, ChannelInv
<1> HIDE DEF k
<1>5. ASSUME NEW e \in Stream PROVE NetShrinks!(e)
  <2>1. ~net[e].live => net[e].down = <<>>
    BY Zenon DEF SessionInv, ChannelInv
  <2>2. CASE e = k
    BY <1>1, <1>2, <1>3, <1>4, <2>2
  <2>3. CASE e # k
    <3>1. net'[e] = net[e] /\ Len(net[e].up) <= Len(net[e].up)
      BY <1>1, <1>2, <2>3
    <3> QED
      BY <2>1, <3>1, Zenon
  <2> QED
    BY <2>2, <2>3, Zenon
<1> QED
  BY <1>2, <1>5, Zenon DEF NetShrinks

LEMMA HungUpNet ==
    ASSUME SessionInv, client.conn \in Stream, NEW n,
           net' = [net EXCEPT ![client.conn] = n],
           \/ n = HungUp(net[client.conn])
           \/ \E prefix \in 0..Len(net[client.conn].up) :
                 n = [HungUp(net[client.conn]) EXCEPT !.up = SubSeq(net[client.conn].up, 1, prefix)]
    PROVE  NetShrinks /\ net' \in [Stream -> ChannelType]
<1> DEFINE k == client.conn
           up == net[k].up
<1>1. /\ net \in [Stream -> ChannelType] /\ net[k] \in ChannelType
      /\ \A e \in Stream : net[e].up \in Seq(RequestType)
      /\ up \in Seq(RequestType) /\ <<>> \in Seq(AnswerType)
  BY DEF SessionInv, SessionTypes, ChannelType
<1>2. /\ n \in ChannelType /\ ~n.live /\ n.down = <<>> /\ Len(n.up) <= Len(up)
      /\ \A i \in DOMAIN n.up : i \in DOMAIN up /\ n.up[i] = up[i]
  <2>1. CASE n = HungUp(net[k])
    <3>1. /\ n.live = FALSE /\ n.down = <<>> /\ n.up = up /\ n \in ChannelType
      BY <1>1, <2>1, Zenon DEF HungUp, ChannelType
    <3> QED
      BY <1>1, <3>1
  <2>2. CASE \E prefix \in 0..Len(up) : n = [HungUp(net[k]) EXCEPT !.up = SubSeq(up, 1, prefix)]
    <3>1. PICK prefix \in 0..Len(up) : n = [HungUp(net[k]) EXCEPT !.up = SubSeq(up, 1, prefix)]
      BY <2>2, Zenon
    <3>2. /\ SubSeq(up, 1, prefix) \in Seq(RequestType) /\ Len(SubSeq(up, 1, prefix)) <= Len(up)
          /\ \A i \in DOMAIN SubSeq(up, 1, prefix) :
                i \in DOMAIN up /\ SubSeq(up, 1, prefix)[i] = up[i]
      BY <1>1
    <3>3. /\ n \in ChannelType /\ ~n.live /\ n.down = <<>> /\ n.up = SubSeq(up, 1, prefix)
      BY <1>1, <3>1, <3>2, Zenon DEF HungUp, ChannelType
    <3> QED
      BY <3>2, <3>3, Zenon
  <2> QED
    BY <2>1, <2>2
<1>3. /\ net' \in [Stream -> ChannelType] /\ \A e \in Stream \ {k} : net'[e] = net[e]
      /\ net'[k] = n
  BY <1>1, <1>2, Zenon
<1> HIDE DEF k, up
<1>4. ASSUME NEW e \in Stream PROVE NetShrinks!(e)
  <2>1. (~net[e].live => net[e].down = <<>>) /\ (net[e].live => e = k)
    BY Zenon DEF SessionInv, ChannelInv, k
  <2>2. CASE e = k
    BY <1>2, <1>3, <2>2 DEF up
  <2>3. CASE e # k
    BY <1>1, <1>3, <2>1, <2>3
  <2> QED
    BY <2>2, <2>3
<1> QED
  BY <1>3, <1>4 DEF NetShrinks

\* The client loses its stream and nothing else.
LEMMA DropKeeps ==
    ASSUME SessionInv, UNCHANGED <<serviceVars, saved, ingested>>, NetShrinks,
           net' \in [Stream -> ChannelType], client' \in ClientType,
           client'.link = "down", client'.conn = None, client'.phase = client.phase,
           client'.t = client.t, client'.op \in {client.op, "none"}
    PROVE  SessionInv'
<1>1. LinkStays
  BY DEF LinkStays
<1>2. Ready' = Ready /\ t' = t
  BY Zenon DEF Ready, t
<1>3. SessionTypes' /\ CallInv'
  BY <1>2 DEF SessionInv, SessionTypes, CallInv
<1>4. Ready => t.ackseq <= t.ackseq
  BY AckSequences, Zenon DEF SessionInv, SessionTypes
<1> QED
  BY <1>1, <1>2, <1>3, <1>4, LocalKeeps DEF SessionInv, StandingInv

LEMMA CrashKeeps ==
    ASSUME SessionInv, ClientCrash
    PROVE  SessionInv'
<1>1. /\ UNCHANGED <<serviceVars, saved, ingested>> /\ client' = NoClient
      /\ net' = IF client.conn = None THEN net ELSE [net EXCEPT ![client.conn] = HungUp(@)]
  BY DEF ClientCrash
<1>2. /\ client' \in ClientType /\ client'.link = "down" /\ client'.conn = None /\ ~Ready'
      /\ client'.op = "none"
  BY <1>1 DEF NoClient, ClientType, Ready
<1>3. NetShrinks /\ net' \in [Stream -> ChannelType]
  <2>1. CASE client.conn = None
    BY <1>1, <1>2, <2>1, QuietNet
  <2>2. CASE client.conn # None
    <3>1. client.conn \in Stream
      BY <2>2 DEF SessionInv, SessionTypes, ClientType
    <3> QED
      BY <1>1, <2>2, <3>1, HungUpNet, Zenon
  <2> QED
    BY <2>1, <2>2
<1>4. SessionTypes' /\ CallInv' /\ LinkStays
  BY <1>1, <1>2, <1>3, Zenon DEF SessionInv, SessionTypes, CallInv, LinkStays
<1> QED
  BY <1>1, <1>2, <1>3, <1>4, LocalKeeps

LEMMA HandshakeFailsKeeps ==
    ASSUME SessionInv, client.link = "dialing", NEW new,
           new \in {client, Return(client), Faulty(client)}, HandshakeFails(new)
    PROVE  SessionInv'
<1>1. client.conn \in Stream /\ client \in ClientType
  BY DEF SessionInv, SessionTypes
<1>2. /\ client' \in ClientType /\ client'.link = "down" /\ client'.conn = None
      /\ client'.phase = client.phase /\ client'.t = client.t /\ client'.op \in {client.op, "none"}
  BY <1>1, Zenon DEF HandshakeFails, Return, Faulty, ClientType
<1>3. NetShrinks /\ net' \in [Stream -> ChannelType] /\ UNCHANGED <<serviceVars, saved, ingested>>
  BY <1>1, HungUpNet, Zenon DEF HandshakeFails
<1> QED
  BY <1>2, <1>3, DropKeeps, Zenon

LEMMA LosesStreamKeeps ==
    ASSUME SessionInv, LoseStream \/ PresentPosition
    PROVE  SessionInv'
<1>1. /\ client.conn \in Stream /\ client \in ClientType
      /\ client' = [client EXCEPT !.link = "down", !.conn = None]
      /\ UNCHANGED <<serviceVars, saved, ingested>>
  BY DEF SessionInv, SessionTypes, LoseStream, PresentPosition
<1>2. /\ client' \in ClientType /\ client'.link = "down" /\ client'.conn = None
      /\ client'.phase = client.phase /\ client'.t = client.t /\ client'.op = client.op
  BY <1>1, Zenon DEF ClientType
<1>3. NetShrinks /\ net' \in [Stream -> ChannelType]
  BY <1>1, HungUpNet, Zenon DEF LoseStream, PresentPosition
<1> QED
  BY <1>1, <1>2, <1>3, DropKeeps, Zenon

\* A step that changes the transport and at most reads from the stream.
LEMMA TransportKeeps ==
    ASSUME SessionInv, Ready, UNCHANGED <<serviceVars, saved, ingested>>, NetShrinks,
           net' \in [Stream -> ChannelType], client' \in ClientType,
           client'.phase \in {"new", "ready"}, client'.link = client.link,
           client'.conn = client.conn, client'.hello = client.hello,
           client'.t \in TransportType, t.ackseq <= client'.t.ackseq,
           Standing(client'.t, Row, History, saved, ingested),
           client'.op = "apply" => client'.t.apply # None,
           client'.op = "ack" => client'.t.ack # None,
           client'.op = "next" => client'.t.ack = None /\ client'.t.inflight = None
    PROVE  SessionInv'
<1>1. LinkStays
  BY Zenon DEF LinkStays
<1>2. Ready' /\ t' = client'.t
  BY Zenon DEF Ready, t
<1>3. SessionTypes' /\ CallInv'
  BY <1>2, Zenon DEF SessionInv, SessionTypes, CallInv
<1> QED
  BY <1>1, <1>2, <1>3, LocalKeeps, Zenon

\* A transport that records less stands where it stood.
LEMMA StandsStill ==
    ASSUME NEW a, NEW b, NEW row, NEW hist, NEW position, NEW taken,
           Standing(a, row, hist, position, taken),
           b.accepted.acked = a.accepted.acked, b.ackseq = a.ackseq,
           b.inflight \in {a.inflight, None}, b.resume \in {a.resume, None},
           b.ack = None \/ (a.ack # None /\ b.ack.value = a.ack.value),
           \A i \in DOMAIN b.buffered : \E j \in DOMAIN a.buffered : b.buffered[i] = a.buffered[j]
    PROVE  Standing(b, row, hist, position, taken)
<1>1. \A i \in DOMAIN b.buffered : Genuine(b.buffered[i].d, row, hist)
  BY Zenon DEF Standing
<1> HIDE DEF Genuine
<1> QED
  BY <1>1 DEF Standing

\* The saved position is that of the outbox item or of something acknowledged.
LEMMA SavedIsBacked ==
    ASSUME SessionBase, SessionInv, saved # None
    PROVE  /\ Backed(TokenSequence(saved.token), Row, saved)
           /\ saved \in Proofs /\ TokenSequence(saved.token) \in 1..MaxSequence
<1> DEFINE last == ingested[Len(ingested)]
<1>1. /\ ingested \in Seq(DeliveryType) /\ saved \in Proofs
      /\ ingested # <<>> /\ saved = PositionOf(last)
      /\ \/ Row.pending = last
         \/ /\ Row.runtime # None /\ Row.runtime = last.cursor
            /\ last.token = Token(last.seq) /\ last.cursor.seq = last.seq
  BY Zenon DEF SessionInv, SessionTypes, SavedInv, SavedAt
<1>2. last \in DeliveryType /\ last # None
  BY <1>1, LastIngested, Zenon
<1>3. last.token = Token(last.seq) /\ last.seq \in 1..MaxSequence /\ saved.token = last.token
  BY <1>1, <1>2, RowFacts DEF RowSound, DeliveryType, PositionOf
<1> HIDE DEF last
<1>4. TokenSequence(saved.token) = last.seq
  BY <1>3, TokenOfSequence
<1>5. CASE Row.pending = last
  BY <1>1, <1>2, <1>3, <1>4, <1>5 DEF Backed
<1>6. CASE Row.runtime # None /\ Row.runtime = last.cursor /\ last.cursor.seq = last.seq
  <2>1. Row.runtime.seq <= AckedSequence(Row)
    BY <1>6, RowFacts DEF RowSound, ValidatePersistedSession, ValidateCursors, EmptyRow,
       AckedSequence
  <2> QED
    BY <1>1, <1>3, <1>4, <1>6, <2>1, Zenon DEF Backed
<1> QED
  BY <1>1, <1>5, <1>6, Zenon

\* Calls of the runtime, and the end of one.
LEMMA CallKeeps ==
    ASSUME SessionInv, NEW op \in {"apply", "next", "ack"}, NEW tr \in TransportType,
           Call(op, tr), Standing(tr, Row, History, saved, ingested), tr.ackseq = t.ackseq,
           op = "apply" => tr.apply # None, op = "ack" => tr.ack # None,
           op = "next" => tr.ack = None /\ tr.inflight = None
    PROVE  SessionInv'
<1>1. /\ Ready /\ UNCHANGED <<serviceVars, net, saved, ingested>> /\ client \in ClientType
      /\ client' = [client EXCEPT !.phase = "ready", !.op = op, !.t = tr]
  BY Zenon DEF Call, SessionInv, SessionTypes
<1>2. /\ client' \in ClientType /\ client'.phase = "ready" /\ client'.link = client.link
      /\ client'.conn = client.conn /\ client'.hello = client.hello /\ client'.t = tr
      /\ client'.op = op
  BY <1>1, Zenon DEF ClientType
<1>3. NetShrinks /\ net' \in [Stream -> ChannelType]
  BY <1>1, <1>2, QuietNet, Zenon
<1>4. t.ackseq <= tr.ackseq
  BY DEF TransportType
<1> QED
  BY <1>1, <1>2, <1>3, <1>4, TransportKeeps

LEMMA CallsKeep ==
    ASSUME SessionBase, SessionInv, CallApply \/ CallNext \/ CallAck
    PROVE  SessionInv'
<1>1. /\ Ready /\ t \in TransportType /\ Standing(t, Row, History, saved, ingested)
  BY Zenon DEF SessionInv, SessionTypes, StandingInv, CallApply, CallNext, CallAck
<1>2. CASE CallNext
  BY <1>1, <1>2, CallKeeps, Zenon DEF CallNext
<1>3. CASE CallApply
  <2>1. CASE t.apply # None /\ Call("apply", t)
    BY <1>1, <2>1, CallKeeps, Zenon
  <2>2. ASSUME t.accepted.rev < MaxRevision, NEW owners \in Asks[t.accepted.rev + 1],
               Call("apply", [t EXCEPT !.apply =
                    [sent |-> FALSE,
                     value |-> [expected |-> t.accepted.rev, new |-> t.accepted.rev + 1,
                                owners |-> owners]]])
        PROVE  SessionInv'
    <3> DEFINE value == [expected |-> t.accepted.rev, new |-> t.accepted.rev + 1,
                         owners |-> owners]
               call == [sent |-> FALSE, value |-> value]
               tr == [t EXCEPT !.apply = call]
    <3>1. value \in Requests
      <4>1. t.accepted.rev \in 0..MaxRevision
        BY <1>1 DEF TransportType, AcceptedFields, Revisions
      <4>2. owners \in Topologies
        BY <2>2, <4>1, SessionAssumption, BoundAssumption
      <4> QED
        BY <2>2, <4>1, <4>2, BoundAssumption DEF Requests, Revisions
    <3> HIDE DEF value
    <3>2. call \in [sent : BOOLEAN, value : Requests] /\ call # None
      <4>1. call \in [sent : BOOLEAN, value : Requests \cup Acknowledgements]
        BY <3>1, Zenon
      <4>2. call \in [sent : BOOLEAN, value : Requests]
        BY <3>1, Zenon
      <4> HIDE DEF call
      <4> QED
        BY <4>1, <4>2, SessionAssumption
    <3> HIDE DEF call
    <3>3. /\ tr \in TransportType /\ tr.apply # None /\ tr.accepted = t.accepted
          /\ tr.ackseq = t.ackseq /\ tr.inflight = t.inflight /\ tr.resume = t.resume
          /\ tr.ack = t.ack /\ tr.buffered = t.buffered
      BY <1>1, <3>2, Zenon DEF TransportType
    <3> HIDE DEF tr
    <3>4. Standing(tr, Row, History, saved, ingested)
      BY <1>1, <3>3, StandsStill
    <3>5. Call("apply", tr)
      BY <2>2 DEF tr, call, value
    <3> QED
      BY <3>3, <3>4, <3>5, CallKeeps
  <2> QED
    BY <1>3, <2>1, <2>2, Zenon DEF CallApply
<1>4. CASE CallAck
  <2>1. CASE t.ack # None /\ Call("ack", t)
    BY <1>1, <2>1, CallKeeps, Zenon
  <2>2. CASE /\ MayAcknowledge
             /\ Call("ack", [t EXCEPT !.ack = [sent |-> FALSE, value |-> AcknowledgementOf(t)]])
    <3> DEFINE value == AcknowledgementOf(t)
               call == [sent |-> FALSE, value |-> value]
               tr == [t EXCEPT !.ack = call]
    <3>1. /\ value \in Acknowledgements /\ value.seq \in {t.ackseq, t.ackseq + 1}
          /\ Backed(value.seq, Row, saved)
          /\ t.inflight # None => value.seq = t.inflight.seq
      <4>1. CASE t.inflight # None
        <5>1. /\ t.inflight \in DeliveryType /\ Genuine(t.inflight, Row, History)
              /\ t.inflight.seq \in {t.ackseq, t.ackseq + 1}
              /\ t.inflight.neutral \/ saved = PositionOf(t.inflight)
          BY <1>1, <2>2, <4>1, Zenon DEF TransportType, Standing, MayAcknowledge
        <5>2. value \in Acknowledgements /\ value.seq = t.inflight.seq
          BY <4>1, <5>1, Zenon DEF AcknowledgementOf, Acknowledgements, DeliveryType
        <5>3. AckedSequence(Row) = Len(History)
          BY RowFacts, Zenon DEF RowSound
        <5> HIDE DEF value
        <5> QED
          BY <4>1, <5>1, <5>2, <5>3, Zenon DEF Genuine, Backed
      <4>2. CASE t.inflight = None
        <5>1. /\ t.resume # None /\ t.resume \in Proofs
              /\ TokenSequence(t.resume.token) = t.ackseq + 1
              /\ Backed(TokenSequence(t.resume.token), Row, saved)
          BY <1>1, <2>2, <4>2 DEF TransportType, Standing, MayAcknowledge
        <5>2. PICK n \in 1..MaxSequence : t.resume.token = Token(n)
          BY <5>1 DEF Proofs
        <5>3. TokenSequence(t.resume.token) \in 1..MaxSequence
          BY <5>2, TokenOfSequence
        <5>4. /\ value \in Acknowledgements /\ value.seq = TokenSequence(t.resume.token)
          BY <4>2, <5>2, <5>3 DEF AcknowledgementOf, Acknowledgements
        <5> HIDE DEF value
        <5> QED
          BY <4>2, <5>1, <5>4, Zenon
      <4> QED
        BY <4>1, <4>2, Zenon
    <3> HIDE DEF value
    <3>2. call \in [sent : BOOLEAN, value : Acknowledgements] /\ call # None /\ call.value = value
      <4>1. call \in [sent : BOOLEAN, value : Requests \cup Acknowledgements]
        BY <3>1, Zenon
      <4>2. call \in [sent : BOOLEAN, value : Acknowledgements] /\ call.value = value
        BY <3>1, Zenon
      <4> HIDE DEF call
      <4> QED
        BY <4>1, <4>2, SessionAssumption
    <3> HIDE DEF call
    <3>3. /\ tr \in TransportType /\ tr.ack = call /\ tr.accepted = t.accepted
          /\ tr.ackseq = t.ackseq /\ tr.inflight = t.inflight /\ tr.resume = t.resume
          /\ tr.buffered = t.buffered
      BY <1>1, <3>2 DEF TransportType
    <3>4. Call("ack", tr)
      BY <2>2 DEF tr, call, value
    <3> HIDE DEF tr
    <3>5. Standing(tr, Row, History, saved, ingested)
      BY <1>1, <3>1, <3>2, <3>3, Zenon DEF Standing
    <3> QED
      BY <3>2, <3>3, <3>4, <3>5, CallKeeps, Zenon
  <2> QED
    BY <1>4, <2>1, <2>2, Zenon DEF CallAck
<1> QED
  BY <1>2, <1>3, <1>4, Zenon

LEMMA RestoreKeeps ==
    ASSUME SessionBase, SessionInv, CallRestore \/ Cancel
    PROVE  SessionInv'
<1>1. /\ Ready /\ t \in TransportType /\ client \in ClientType /\ client.t = t
      /\ Standing(t, Row, History, saved, ingested) /\ CallInv
      /\ UNCHANGED <<serviceVars, net, saved, ingested>>
  BY DEF SessionInv, SessionTypes, StandingInv, CallRestore, Cancel, Ready, t
<1>2. t.ackseq <= t.ackseq
  BY <1>1, AckSequences, Zenon
<1>3. CASE CallRestore /\ ValidateResumePosition(t.accepted, saved)
  <2> DEFINE tr == RestorePosition(t, saved)
  <2>1. saved # None /\ client' = [client EXCEPT !.t = tr]
    BY <1>3 DEF CallRestore
  <2>2. /\ Backed(TokenSequence(saved.token), Row, saved) /\ saved \in Proofs
        /\ TokenSequence(saved.token) \in 1..MaxSequence
    BY <2>1, SavedIsBacked, Zenon
  <2>3. t.ackseq = CursorSequence(t.accepted.acked)
    BY <1>1 DEF Standing
  <2>4. /\ tr \in TransportType /\ tr.ackseq = t.ackseq /\ tr.accepted = t.accepted
        /\ tr.inflight = None /\ tr.resume = saved /\ tr.ack = t.ack /\ tr.buffered = t.buffered
        /\ tr.apply = t.apply
    <3> DEFINE rehello == t.helloseq # TokenSequence(saved.token) \/ t.resume # saved
    <3>1. rehello \in BOOLEAN
      OBVIOUS
    <3>2. tr = [t EXCEPT !.ackseq = t.ackseq, !.inflight = None, !.rehello = rehello,
                         !.resume = saved, !.confirm = FALSE]
      BY <2>3, Zenon DEF RestorePosition
    <3> HIDE DEF tr, rehello
    <3> QED
      BY <1>1, <2>2, <3>1, <3>2, ZenonT(30) DEF TransportType
  <2> HIDE DEF tr
  <2>5. Standing(tr, Row, History, saved, ingested)
    BY <1>1, <2>2, <2>4, Zenon DEF Standing
  <2>6. /\ client' \in ClientType /\ client'.phase = client.phase /\ client'.link = client.link
        /\ client'.conn = client.conn /\ client'.hello = client.hello /\ client'.t = tr
        /\ client'.op = client.op
    BY <1>1, <2>1, <2>4, Zenon DEF ClientType
  <2>7. NetShrinks /\ net' \in [Stream -> ChannelType]
    BY <1>1, <2>6, QuietNet, Zenon
  <2> QED
    BY <1>1, <1>2, <2>4, <2>5, <2>6, <2>7, TransportKeeps DEF CallInv, Ready
<1>4. CASE Cancel \/ (CallRestore /\ ~ValidateResumePosition(t.accepted, saved))
  <2>1. /\ client' \in ClientType /\ client'.phase = client.phase /\ client'.link = client.link
        /\ client'.conn = client.conn /\ client'.hello = client.hello /\ client'.t = t
        /\ client'.op = "none"
    BY <1>1, <1>4, Zenon DEF ClientType, Cancel, CallRestore, Return, Faulty
  <2>2. NetShrinks /\ net' \in [Stream -> ChannelType]
    BY <1>1, <2>1, QuietNet
  <2> QED
    BY <1>1, <1>2, <2>1, <2>2, TransportKeeps DEF Ready
<1> QED
  BY <1>3, <1>4

\* The client appends a request to the stream it holds.
LEMMA SendKeeps ==
    ASSUME SessionInv, client.link = "up", NEW m \in RequestType, NEW new \in TransportType,
           Send(m, new), RequestBacked(m, Row, saved),
           m.kind = "ack" => m.ack.seq <= t.ackseq + 1,
           Standing(new, Row, History, saved, ingested), new.ackseq = t.ackseq,
           client.op = "apply" => new.apply # None, client.op = "ack" => new.ack # None,
           client.op = "next" => new.ack = None /\ new.inflight = None
    PROVE  SessionInv'
<1> DEFINE k == client.conn
           n == [net[k] EXCEPT !.up = Append(net[k].up, m)]
<1>1. /\ k \in Stream /\ net \in [Stream -> ChannelType] /\ net[k] \in ChannelType
      /\ client \in ClientType /\ Ready
  BY DEF SessionInv, SessionTypes, CallInv
<1>2. /\ net' = [net EXCEPT ![k] = n] /\ client' = [client EXCEPT !.t = new]
      /\ UNCHANGED <<serviceVars, saved, ingested>>
  BY DEF Send
<1>3. /\ UNCHANGED <<rows, log, streams>> /\ Row' = Row /\ History' = History
  BY <1>2, Zenon DEF serviceVars, vars, Row, History
<1>4. net[k].up \in Seq(RequestType)
  BY <1>1, Zenon DEF ChannelType
<1>5. /\ Append(net[k].up, m) \in Seq(RequestType)
      /\ \A i \in DOMAIN Append(net[k].up, m) :
            Append(net[k].up, m)[i] = m
            \/ (i \in DOMAIN net[k].up /\ Append(net[k].up, m)[i] = net[k].up[i])
  BY <1>4
<1>6. /\ n \in ChannelType /\ n.live = net[k].live /\ n.down = net[k].down
      /\ n.up = Append(net[k].up, m)
  BY <1>1, <1>5, Zenon DEF ChannelType
<1> HIDE DEF n
<1>7. /\ net' \in [Stream -> ChannelType] /\ net'[k] = n
      /\ \A e \in Stream \ {k} : net'[e] = net[e]
  BY <1>1, <1>2, <1>6
<1> HIDE DEF k
<1>8. \A e \in Stream : /\ net'[e].live = net[e].live /\ net'[e].down = net[e].down
                        /\ \A i \in DOMAIN net'[e].up :
                              \/ e = k /\ net'[e].up[i] = m
                              \/ i \in DOMAIN net[e].up /\ net'[e].up[i] = net[e].up[i]
  BY <1>5, <1>6, <1>7, Zenon
<1>9. /\ client' \in ClientType /\ client'.phase = client.phase /\ client'.link = client.link
      /\ client'.conn = client.conn /\ client'.hello = client.hello /\ client'.t = new
      /\ client'.op = client.op
  BY <1>1, <1>2, Zenon DEF ClientType
<1>10. Ready' /\ t' = new
  BY <1>1, <1>9 DEF Ready, t
<1>11. SessionTypes' /\ CallInv'
  BY <1>2, <1>7, <1>9, <1>10, Zenon DEF SessionInv, SessionTypes, CallInv
<1>12. ChannelInv'
  <2>1. streams[k].phase \notin {"open", "acquired"}
    BY Zenon DEF SessionInv, ChannelInv, k
  <2>2. ASSUME NEW e \in Stream PROVE ChannelInv!1!(e)'
    <3>1. ChannelInv!1!(e)
      BY Zenon DEF SessionInv, ChannelInv
    <3>2. CASE e = k
      BY <1>3, <1>8, <1>9, <2>1, <3>1, <3>2, Zenon DEF k
    <3>3. CASE e # k
      BY <1>3, <1>7, <1>9, <3>1, <3>3
    <3> QED
      BY <3>2, <3>3, Zenon
  <2> QED
    BY <1>3, <1>9, <2>1, <2>2, Zenon DEF ChannelInv, k
<1>13. TransitInv'
  BY <1>2, <1>3, <1>8, Zenon DEF SessionInv, TransitInv
<1>14. ReachInv'
  BY <1>1, <1>3, <1>8, <1>10, Zenon DEF SessionInv, ReachInv
<1>15. StandingInv' /\ SavedInv' /\ DialInv'
  BY <1>2, <1>3, <1>9, <1>10 DEF SessionInv, StandingInv, SavedInv, DialInv
<1> QED
  BY <1>11, <1>12, <1>13, <1>14, <1>15, Zenon DEF SessionInv

LEMMA SendRequestKeeps ==
    ASSUME SessionInv, SendRequest
    PROVE  SessionInv'
<1>1. /\ Ready /\ client.link = "up" /\ t \in TransportType /\ CallInv
      /\ Standing(t, Row, History, saved, ingested)
  BY Zenon DEF SessionInv, SessionTypes, StandingInv, SendRequest, Talking
<1>2. ASSUME NEW m \in RequestType, NEW new \in TransportType, Send(m, new),
             RequestBacked(m, Row, saved), m.kind = "ack" => m.ack.seq <= t.ackseq + 1,
             new.accepted = t.accepted, new.ackseq = t.ackseq, new.inflight = t.inflight,
             new.resume = t.resume, new.buffered = t.buffered,
             (t.apply = None) = (new.apply = None), (t.ack = None) = (new.ack = None),
             t.ack # None => new.ack.value = t.ack.value
      PROVE  SessionInv'
  <2>1. Standing(new, Row, History, saved, ingested)
    BY <1>1, <1>2, StandsStill, Zenon
  <2> QED
    BY <1>1, <1>2, <2>1, SendKeeps, Zenon DEF CallInv
<1>3. CASE /\ client.op = "apply"
           /\ Send([kind |-> "apply", request |-> t.apply.value], [t EXCEPT !.apply.sent = TRUE])
  <2> DEFINE call == [t.apply EXCEPT !.sent = TRUE]
             new == [t EXCEPT !.apply = call]
             m == [kind |-> "apply", request |-> t.apply.value]
  <2>1. t.apply \in [sent : BOOLEAN, value : Requests]
    BY <1>1, <1>3 DEF CallInv, TransportType
  <2>2. call \in [sent : BOOLEAN, value : Requests] /\ call # None
    <3>1. call \in [sent : BOOLEAN, value : Requests \cup Acknowledgements]
      BY <2>1, Zenon
    <3>2. call \in [sent : BOOLEAN, value : Requests]
      BY <2>1, Zenon
    <3> HIDE DEF call
    <3> QED
      BY <3>1, <3>2, SessionAssumption
  <2>3. m \in RequestType /\ m.kind = "apply"
    BY <2>1 DEF RequestType
  <2>4. Send(m, new)
    BY <1>3
  <2> HIDE DEF call, m
  <2>5. /\ new \in TransportType /\ new.accepted = t.accepted /\ new.ackseq = t.ackseq
        /\ new.inflight = t.inflight /\ new.resume = t.resume /\ new.buffered = t.buffered
        /\ new.apply = call /\ new.ack = t.ack
    BY <1>1, <2>2 DEF TransportType
  <2> HIDE DEF new
  <2>6. t.apply # None
    BY <1>1, <1>3 DEF CallInv
  <2>7. RequestBacked(m, Row, saved) /\ (m.kind = "ack" => m.ack.seq <= t.ackseq + 1)
    BY <2>3, Zenon DEF RequestBacked
  <2> QED
    BY <1>2, <2>2, <2>3, <2>4, <2>5, <2>6, <2>7
<1>4. CASE /\ client.op = "ack"
           /\ Send([kind |-> "ack", ack |-> t.ack.value], [t EXCEPT !.ack.sent = TRUE])
  <2> DEFINE call == [t.ack EXCEPT !.sent = TRUE]
             new == [t EXCEPT !.ack = call]
             m == [kind |-> "ack", ack |-> t.ack.value]
  <2>1. t.ack \in [sent : BOOLEAN, value : Acknowledgements] /\ t.ack # None
    BY <1>1, <1>4 DEF CallInv, TransportType
  <2>2. /\ call \in [sent : BOOLEAN, value : Acknowledgements] /\ call # None
        /\ call.value = t.ack.value
    <3>1. call \in [sent : BOOLEAN, value : Requests \cup Acknowledgements]
      BY <2>1, Zenon
    <3>2. call \in [sent : BOOLEAN, value : Acknowledgements] /\ call.value = t.ack.value
      BY <2>1, Zenon
    <3> HIDE DEF call
    <3> QED
      BY <3>1, <3>2, SessionAssumption
  <2>3. m \in RequestType /\ m.kind = "ack" /\ m.ack = t.ack.value
    BY <2>1 DEF RequestType
  <2>4. Send(m, new)
    BY <1>4
  <2> HIDE DEF call, m
  <2>5. /\ new \in TransportType /\ new.accepted = t.accepted /\ new.ackseq = t.ackseq
        /\ new.inflight = t.inflight /\ new.resume = t.resume /\ new.buffered = t.buffered
        /\ new.apply = t.apply /\ new.ack = call
    BY <1>1, <2>2, Zenon DEF TransportType
  <2> HIDE DEF new
  <2>6. t.ack.value.seq \in {t.ackseq, t.ackseq + 1} /\ Backed(t.ack.value.seq, Row, saved)
    BY <1>1, <2>1, Zenon DEF Standing
  <2>7. t.ackseq \in Nat
    BY <1>1, BoundAssumption DEF TransportType
  <2>8. RequestBacked(m, Row, saved) /\ (m.kind = "ack" => m.ack.seq <= t.ackseq + 1)
    BY <2>3, <2>6, <2>7 DEF RequestBacked
  <2> QED
    BY <1>2, <2>1, <2>2, <2>3, <2>4, <2>5, <2>8
<1>5. CASE Send([kind |-> "demand"], [t EXCEPT !.demand = TRUE])
  <2> DEFINE new == [t EXCEPT !.demand = TRUE]
             m == [kind |-> "demand"]
  <2>1. m \in RequestType /\ m.kind = "demand"
    BY DEF RequestType
  <2>2. Send(m, new)
    BY <1>5
  <2> HIDE DEF m
  <2>3. /\ new \in TransportType /\ new.accepted = t.accepted /\ new.ackseq = t.ackseq
        /\ new.inflight = t.inflight /\ new.resume = t.resume /\ new.buffered = t.buffered
        /\ new.apply = t.apply /\ new.ack = t.ack
    BY <1>1, Zenon DEF TransportType
  <2> HIDE DEF new
  <2>4. RequestBacked(m, Row, saved) /\ (m.kind = "ack" => m.ack.seq <= t.ackseq + 1)
    BY <2>1, Zenon DEF RequestBacked
  <2> QED
    BY <1>2, <2>1, <2>2, <2>3, <2>4
<1> QED
  BY <1>3, <1>4, <1>5 DEF SendRequest

(***************************************************************************)
(* Answers                                                                 *)
(***************************************************************************)
LEMMA ReceivedStands ==
    ASSUME SessionBase, SessionInv, NEW from \in TransportType, from.ack = None,
           Standing(from, Row, History, saved, ingested), NEW d \in DeliveryType,
           Genuine(d, Row, History), ValidateTransportDelivery(from, d)
    PROVE  /\ DeliveryReceived(from, d) \in TransportType
           /\ DeliveryReceived(from, d).ackseq = from.ackseq
           /\ Standing(DeliveryReceived(from, d), Row, History, saved, ingested)
<1> DEFINE tr == DeliveryReceived(from, d)
<1>1. /\ tr \in TransportType /\ tr.inflight = d /\ tr.ackseq = from.ackseq
      /\ tr.accepted = from.accepted /\ tr.ack = None /\ tr.resume = from.resume
      /\ tr.buffered = from.buffered
  BY Zenon DEF DeliveryReceived, TransportType
<1> HIDE DEF tr
<1>2. d.seq = from.ackseq + 1 /\ d.token = Token(d.seq) /\ d.cursor.seq = d.seq
  BY Zenon DEF ValidateTransportDelivery
<1>3. from.ackseq \in Nat /\ AckedSequence(Row) \in {from.ackseq, from.ackseq + 1}
  <2>1. from.ackseq \in 0..MaxSequence
    BY AckSequences, Zenon
  <2>2. from.ackseq \in Nat
    BY <2>1
  <2> QED
    BY <2>2, Zenon DEF Standing
<1>4. Row.pending = d \/ d.neutral \/ saved = PositionOf(d)
  <2> SUFFICES ASSUME Row.pending # d, ~d.neutral PROVE saved = PositionOf(d)
    BY Zenon
  <2>1. /\ AckedSequence(Row) = Len(History) /\ History \in Seq(DeliveryType)
        /\ Row.pending # None => Row.pending.seq = AckedSequence(Row) + 1
    BY RowFacts, Zenon DEF RowSound
  <2>2. d.seq <= Len(History) /\ History[d.seq] = d
    BY Zenon DEF Genuine
  <2>3. d.seq = Len(History) /\ Len(History) # 0
    BY <1>2, <1>3, <2>1, <2>2
  <2>4. Row.runtime = d.cursor /\ d.cursor # None
    <3>1. d.cursor \in Cursor
      BY Zenon DEF DeliveryType
    <3> QED
      BY <2>1, <2>2, <2>3, <3>1, NoneAssumption DEF SessionBase, LastVisible
  <2> DEFINE last == ingested[Len(ingested)]
  <2>5. /\ ingested # <<>> /\ saved = PositionOf(last)
        /\ \/ Row.pending = last
           \/ /\ Row.runtime = last.cursor
              /\ last.token = Token(last.seq) /\ last.cursor.seq = last.seq
    BY <2>4, Zenon DEF SessionInv, SavedInv, SavedAt
  <2>6. last.seq <= from.ackseq + 1 /\ last \in DeliveryType /\ last # None
    <3>1. ingested \in Seq(DeliveryType)
      BY Zenon DEF SessionInv, SessionTypes
    <3> QED
      BY <2>5, <3>1, LastIngested, Zenon DEF Standing
  <2>7. Row.pending # last
    BY <1>2, <1>3, <2>1, <2>3, <2>6
  <2> HIDE DEF last
  <2> QED
    BY <1>2, <2>4, <2>5, <2>7 DEF PositionOf
<1>5. Standing(tr, Row, History, saved, ingested)
  <2>1. tr.inflight.seq \in {tr.ackseq, tr.ackseq + 1}
    BY <1>1, <1>2, Zenon
  <2> QED
    BY <1>1, <1>4, <2>1, Zenon DEF Standing
<1> QED
  BY <1>1, <1>5 DEF tr

LEMMA ConfirmedStands ==
    ASSUME SessionBase, SessionInv, t \in TransportType, t.ack # None,
           Standing(t, Row, History, saved, ingested), NEW m,
           m.cursor \in Cursor, m.seq <= AckedSequence(Row), CommittedMatches(t, m)
    PROVE  /\ AckConfirmed(t, m) \in TransportType
           /\ t.ackseq <= AckConfirmed(t, m).ackseq
           /\ Standing(AckConfirmed(t, m), Row, History, saved, ingested)
<1> DEFINE tr == AckConfirmed(t, m)
           acc == [t.accepted EXCEPT !.acked = m.cursor]
           res == IF t.resume # None /\ TokenSequence(t.resume.token) <= m.seq
                  THEN None ELSE t.resume
<1>1. /\ m.seq = t.ack.value.seq /\ m.cursor.seq = m.seq
      /\ t.ack.value.seq \in {t.ackseq, t.ackseq + 1} /\ t.ack.value \in Acknowledgements
  BY Zenon DEF CommittedMatches, Standing, TransportType
<1>2. m.seq \in 0..MaxSequence /\ t.ackseq \in Nat /\ t.ackseq <= m.seq /\ AckedSequence(Row) \in Nat
  BY <1>1, RowFacts DEF Acknowledgements, TransportType, RowSound
<1>3. acc \in AcceptedFields /\ acc.acked = m.cursor
  BY Zenon DEF TransportType, AcceptedFields
<1>4. res \in {t.resume, None}
  OBVIOUS
<1>5. tr = [t EXCEPT !.ack = None, !.ackseq = m.seq, !.accepted = acc, !.inflight = None,
                     !.resume = res]
  BY DEF AckConfirmed
<1> HIDE DEF tr, acc, res
<1>6. /\ tr \in TransportType /\ tr.ackseq = m.seq /\ tr.ack = None /\ tr.inflight = None
      /\ tr.accepted = acc /\ tr.resume = res /\ tr.buffered = t.buffered
  BY <1>2, <1>3, <1>4, <1>5, Zenon DEF TransportType
<1>7. CursorSequence(m.cursor) = m.seq
  <2>1. None \notin Cursor
    BY NoneAssumption
  <2> QED
    BY <1>1, <2>1, Zenon DEF CursorSequence
<1>8. AckedSequence(Row) \in {m.seq, m.seq + 1}
  <2>1. AckedSequence(Row) \in {t.ackseq, t.ackseq + 1}
    BY Zenon DEF Standing
  <2> QED
    BY <1>1, <1>2, <2>1, BoundAssumption
<1>9. ingested # <<>> => ingested[Len(ingested)].seq <= m.seq + 1
  <2> SUFFICES ASSUME ingested # <<>> PROVE ingested[Len(ingested)].seq <= m.seq + 1
    BY Zenon
  <2>1. ingested \in Seq(DeliveryType)
    BY Zenon DEF SessionInv, SessionTypes
  <2>2. ingested[Len(ingested)].seq \in Nat /\ ingested[Len(ingested)].seq <= t.ackseq + 1
    BY <2>1, LastIngested, Zenon DEF Standing
  <2> QED
    BY <1>2, <2>2
<1>10. tr.resume # None => Backed(TokenSequence(tr.resume.token), Row, saved)
  BY <1>4, <1>6, Zenon DEF Standing
<1>11. \A i \in DOMAIN tr.buffered : Genuine(tr.buffered[i].d, Row, History)
  BY <1>6 DEF Standing
<1>12. Standing(tr, Row, History, saved, ingested)
  BY <1>3, <1>6, <1>7, <1>8, <1>9, <1>10, <1>11, Zenon DEF Standing
<1> QED
  BY <1>2, <1>6, <1>12, Zenon DEF tr

\* A call ends and leaves this transport behind.
LEMMA AnswerKeeps ==
    ASSUME SessionInv, Ready, UNCHANGED <<serviceVars, saved, ingested>>,
           client'.conn = client.conn => NetShrinks /\ net' \in [Stream -> ChannelType],
           NEW tr \in TransportType, t.ackseq <= tr.ackseq,
           Standing(tr, Row, History, saved, ingested),
           \/ client' = Answered(tr)
           \/ client' = Faulty([client EXCEPT !.t = tr])
           \/ client' = Faulty(client) /\ tr = t
    PROVE  SessionInv'
<1>1. client \in ClientType /\ client.t = t
  BY DEF SessionInv, SessionTypes, t
<1>2. /\ client' \in ClientType /\ client'.phase = client.phase /\ client'.link = client.link
      /\ client'.conn = client.conn /\ client'.hello = client.hello /\ client'.t = tr
      /\ client'.op = "none"
  BY <1>1, Zenon DEF ClientType, Answered, Return, Faulty
<1> QED
  BY <1>2, TransportKeeps DEF Ready

LEMMA DeliveryOfAnswer ==
    ASSUME NEW m \in AnswerType, m.kind = "delivery"
    PROVE  m \in DeliveryAnswer /\ m.d \in DeliveryType
  BY DEF AnswerType, DeliveryAnswer

LEMMA NextKeeps ==
    ASSUME SessionBase, SessionInv, Ready, UNCHANGED <<serviceVars, saved, ingested>>,
           client'.conn = client.conn => NetShrinks /\ net' \in [Stream -> ChannelType],
           NEW from \in TransportType, from.ack = None, from.ackseq = t.ackseq,
           Standing(from, Row, History, saved, ingested),
           NEW m \in AnswerType, AnswerGenuine(m, Row, History),
           client' = NextAnswers(m, from)
    PROVE  SessionInv'
<1>1. t.ackseq <= from.ackseq
  BY AckSequences, Zenon
<1>2. CASE m.kind = "delivery" /\ ValidateTransportDelivery(from, m.d)
  <2>1. m.d \in DeliveryType /\ Genuine(m.d, Row, History)
    BY <1>2, DeliveryOfAnswer, Zenon DEF AnswerGenuine
  <2>2. client' = Answered(DeliveryReceived(from, m.d))
    BY <1>2, Zenon DEF NextAnswers
  <2>3. /\ DeliveryReceived(from, m.d) \in TransportType
        /\ DeliveryReceived(from, m.d).ackseq = from.ackseq
        /\ Standing(DeliveryReceived(from, m.d), Row, History, saved, ingested)
    BY <1>2, <2>1, ReceivedStands
  <2> QED
    BY <1>1, <2>2, <2>3, AnswerKeeps, Zenon
<1>3. CASE ~(m.kind = "delivery" /\ ValidateTransportDelivery(from, m.d))
  <2> DEFINE tr == DeliveryFailed(from)
  <2>1. /\ tr \in TransportType /\ tr.accepted = from.accepted /\ tr.ackseq = from.ackseq
        /\ tr.inflight = from.inflight /\ tr.resume = from.resume /\ tr.ack = from.ack
        /\ tr.buffered = from.buffered
    BY Zenon DEF DeliveryFailed, TransportType
  <2>2. \/ client' = Answered(tr)
        \/ client' = Faulty([client EXCEPT !.t = tr])
        \/ client' = Faulty([client EXCEPT !.t = from])
    BY <1>3, Zenon DEF NextAnswers
  <2> HIDE DEF tr
  <2>3. Standing(tr, Row, History, saved, ingested)
    BY <2>1, StandsStill
  <2>4. CASE client' = Answered(tr) \/ client' = Faulty([client EXCEPT !.t = tr])
    BY <1>1, <2>1, <2>3, <2>4, AnswerKeeps
  <2>5. CASE client' = Faulty([client EXCEPT !.t = from])
    BY <1>1, <2>5, AnswerKeeps
  <2> QED
    BY <2>2, <2>4, <2>5
<1> QED
  BY <1>2, <1>3, Zenon

LEMMA ApplyAnswerKeeps ==
    ASSUME SessionInv, Ready, client.op = "apply", UNCHANGED <<serviceVars, saved, ingested>>,
           client'.conn = client.conn => NetShrinks /\ net' \in [Stream -> ChannelType],
           NEW m \in AnswerType, AnswerGenuine(m, Row, History), client' = ApplyAnswers(m)
    PROVE  SessionInv'
<1>1. /\ t \in TransportType /\ Standing(t, Row, History, saved, ingested)
      /\ t.apply \in [sent : BOOLEAN, value : Requests] /\ client \in ClientType /\ client.t = t
      /\ t.apply # None
  BY Zenon DEF SessionInv, SessionTypes, StandingInv, CallInv, TransportType, t
<1>2. t.ackseq <= t.ackseq
  BY <1>1, AckSequences
<1>3. CASE client' = Answered(ApplyConfirmed(t))
  <2> DEFINE acc == [t.accepted EXCEPT !.rev = t.apply.value.new, !.desired = t.apply.value]
             tr == [t EXCEPT !.apply = None, !.accepted = acc]
  <2>1. ApplyConfirmed(t) = tr
    BY <1>1, Zenon DEF ApplyConfirmed, TransportType, AcceptedFields
  <2>2. acc \in AcceptedFields /\ acc.acked = t.accepted.acked
    BY <1>1, Zenon DEF TransportType, AcceptedFields, Requests
  <2> HIDE DEF acc
  <2>3. /\ tr \in TransportType /\ tr.accepted = acc /\ tr.ackseq = t.ackseq
        /\ tr.inflight = t.inflight /\ tr.resume = t.resume /\ tr.ack = t.ack
        /\ tr.buffered = t.buffered
    BY <1>1, <2>2, Zenon DEF TransportType
  <2> HIDE DEF tr
  <2>4. Standing(tr, Row, History, saved, ingested)
    BY <1>1, <2>2, <2>3, StandsStill, Zenon
  <2> QED
    BY <1>2, <1>3, <2>1, <2>3, <2>4, AnswerKeeps, Zenon
<1>4. CASE client' = Answered(ApplyFailed(t, m.retryable)) \/ client' = Faulty(client)
  <2> DEFINE tr == [t EXCEPT !.apply = None]
  <2>1. /\ tr \in TransportType /\ tr.accepted = t.accepted /\ tr.ackseq = t.ackseq
        /\ tr.inflight = t.inflight /\ tr.resume = t.resume /\ tr.ack = t.ack
        /\ tr.buffered = t.buffered
    BY <1>1 DEF TransportType
  <2>2. \/ client' = Answered(tr)
        \/ client' = Answered(t)
        \/ client' = Faulty(client)
    BY <1>4, Zenon DEF ApplyFailed
  <2> HIDE DEF tr
  <2>3. Standing(tr, Row, History, saved, ingested)
    BY <1>1, <2>1, StandsStill
  <2>4. CASE client' = Answered(tr)
    BY <1>2, <2>1, <2>3, <2>4, AnswerKeeps, Zenon
  <2>5. CASE client' = Answered(t) \/ client' = Faulty(client)
    BY <1>1, <1>2, <2>5, AnswerKeeps, Zenon
  <2> QED
    BY <2>2, <2>4, <2>5, Zenon
<1>5. CASE m.kind = "delivery" /\ client' = [client EXCEPT !.t.buffered = Append(@, m)]
  <2> DEFINE tr == [t EXCEPT !.buffered = Append(t.buffered, m)]
  <2>1. m \in DeliveryAnswer /\ Genuine(m.d, Row, History) /\ t.buffered \in Seq(DeliveryAnswer)
    BY <1>1, <1>5, DeliveryOfAnswer, Zenon DEF AnswerGenuine, TransportType
  <2>2. /\ Append(t.buffered, m) \in Seq(DeliveryAnswer)
        /\ \A i \in DOMAIN Append(t.buffered, m) :
              Append(t.buffered, m)[i] = m
              \/ (i \in DOMAIN t.buffered /\ Append(t.buffered, m)[i] = t.buffered[i])
    BY <2>1
  <2>3. /\ tr \in TransportType /\ tr.accepted = t.accepted /\ tr.ackseq = t.ackseq
        /\ tr.inflight = t.inflight /\ tr.resume = t.resume /\ tr.ack = t.ack
        /\ tr.buffered = Append(t.buffered, m) /\ tr.apply = t.apply
    BY <1>1, <2>2, Zenon DEF TransportType
  <2>4. client' = [client EXCEPT !.t = tr]
    BY <1>1, <1>5, Zenon
  <2> HIDE DEF tr
  <2>5. Standing(tr, Row, History, saved, ingested)
    <3>1. \A i \in DOMAIN t.buffered : Genuine(t.buffered[i].d, Row, History)
      BY <1>1, Zenon DEF Standing
    <3>2. ASSUME NEW i \in DOMAIN tr.buffered PROVE Genuine(tr.buffered[i].d, Row, History)
      <4>1. tr.buffered[i] = m \/ (i \in DOMAIN t.buffered /\ tr.buffered[i] = t.buffered[i])
        BY <2>2, <2>3, Zenon
      <4> QED
        BY <2>1, <3>1, <4>1
    <3> QED
      BY <1>1, <2>3, <3>2, Zenon DEF Standing
  <2>6. /\ client' \in ClientType /\ client'.phase = client.phase /\ client'.link = client.link
        /\ client'.conn = client.conn /\ client'.hello = client.hello /\ client'.t = tr
        /\ client'.op = "apply"
    BY <1>1, <2>3, <2>4, Zenon DEF ClientType
  <2> QED
    BY <1>1, <1>2, <2>3, <2>5, <2>6, TransportKeeps DEF Ready
<1> QED
  BY <1>3, <1>4, <1>5, Zenon DEF ApplyAnswers

LEMMA AckAnswerKeeps ==
    ASSUME SessionBase, SessionInv, Ready, client.op = "ack",
           UNCHANGED <<serviceVars, saved, ingested>>,
           client'.conn = client.conn => NetShrinks /\ net' \in [Stream -> ChannelType],
           NEW m \in AnswerType, AnswerGenuine(m, Row, History), client' = AckAnswers(m)
    PROVE  SessionInv'
<1>1. /\ t \in TransportType /\ Standing(t, Row, History, saved, ingested)
      /\ client \in ClientType /\ client.t = t /\ t.ack # None
  BY Zenon DEF SessionInv, SessionTypes, StandingInv, CallInv, t
<1>2. t.ackseq <= t.ackseq
  BY <1>1, AckSequences
<1>3. CASE m.kind = "committed" /\ CommittedMatches(t, m) /\ client' = Answered(AckConfirmed(t, m))
  <2>1. m.cursor \in Cursor /\ m.seq <= AckedSequence(Row)
    BY <1>3, Zenon DEF AnswerType, AnswerGenuine, DeliveryAnswer
  <2>2. /\ AckConfirmed(t, m) \in TransportType /\ t.ackseq <= AckConfirmed(t, m).ackseq
        /\ Standing(AckConfirmed(t, m), Row, History, saved, ingested)
    BY <1>1, <1>3, <2>1, ConfirmedStands, Zenon
  <2> QED
    BY <1>3, <2>2, AnswerKeeps, Zenon
<1>4. CASE client' = Answered(AckFailed(t, m.retryable)) \/ client' = Faulty(client)
  <2> DEFINE tr == [t EXCEPT !.ack = None]
  <2>1. /\ tr \in TransportType /\ tr.accepted = t.accepted /\ tr.ackseq = t.ackseq
        /\ tr.inflight = t.inflight /\ tr.resume = t.resume /\ tr.ack = None
        /\ tr.buffered = t.buffered
    BY <1>1 DEF TransportType
  <2>2. \/ client' = Answered(tr)
        \/ client' = Answered(t)
        \/ client' = Faulty(client)
    BY <1>4, Zenon DEF AckFailed
  <2> HIDE DEF tr
  <2>3. Standing(tr, Row, History, saved, ingested)
    BY <1>1, <2>1, StandsStill, Zenon
  <2>4. CASE client' = Answered(tr)
    BY <1>2, <2>1, <2>3, <2>4, AnswerKeeps, Zenon
  <2>5. CASE client' = Answered(t) \/ client' = Faulty(client)
    BY <1>1, <1>2, <2>5, AnswerKeeps, Zenon
  <2> QED
    BY <2>2, <2>4, <2>5
<1>5. CASE client' = client
  BY <1>1, <1>2, <1>5, TransportKeeps DEF Ready
<1> QED
  BY <1>3, <1>4, <1>5, Zenon DEF AckAnswers

LEMMA ReceiveKeeps ==
    ASSUME SessionBase, SessionInv, Receive \/ TakeBuffered
    PROVE  SessionInv'
<1>1. /\ t \in TransportType /\ Ready /\ Standing(t, Row, History, saved, ingested)
      /\ UNCHANGED <<serviceVars, saved, ingested>>
      /\ client.op = "next" => t.ack = None
  BY DEF SessionInv, SessionTypes, StandingInv, CallInv, Receive, TakeBuffered, Talking
<1>2. CASE Receive
  <2> DEFINE k == client.conn
             m == Head(net[k].down)
  <2>1. /\ k \in Stream /\ net[k].down # <<>> /\ net[k].down \in Seq(AnswerType)
        /\ net' = [net EXCEPT ![k].down = Tail(@)]
    BY <1>2 DEF Receive, Talking, SessionInv, SessionTypes, ChannelType
  <2>2. client'.conn = client.conn => NetShrinks /\ net' \in [Stream -> ChannelType]
    BY <2>1, ReadNet
  <2>3. 1 \in DOMAIN net[k].down /\ m = net[k].down[1] /\ m \in AnswerType
    BY <2>1
  <2>4. AnswerGenuine(m, Row, History)
    BY <2>1, <2>3, Zenon DEF SessionInv, TransitInv
  <2>5. \/ client.op = "apply" /\ client' = ApplyAnswers(m)
        \/ client.op = "ack" /\ client' = AckAnswers(m)
        \/ client.op = "next" /\ client' = NextAnswers(m, t)
    BY <1>2, Zenon DEF Receive
  <2> HIDE DEF m, k
  <2>6. CASE client.op = "apply" /\ client' = ApplyAnswers(m)
    BY <1>1, <2>2, <2>3, <2>4, <2>6, ApplyAnswerKeeps, Zenon
  <2>7. CASE client.op = "ack" /\ client' = AckAnswers(m)
    BY <1>1, <2>2, <2>3, <2>4, <2>7, AckAnswerKeeps, Zenon
  <2>8. CASE client.op = "next" /\ client' = NextAnswers(m, t)
    BY <1>1, <2>2, <2>3, <2>4, <2>8, NextKeeps, Zenon
  <2> QED
    BY <2>5, <2>6, <2>7, <2>8, Zenon
<1>3. CASE TakeBuffered
  <2> DEFINE from == [t EXCEPT !.buffered = Tail(t.buffered)]
             m == Head(t.buffered)
  <2>1. /\ t.buffered \in Seq(DeliveryAnswer) /\ t.buffered # <<>> /\ UNCHANGED net
        /\ client' = NextAnswers(m, from) /\ client.op = "next"
    BY <1>1, <1>3 DEF TakeBuffered, TransportType
  <2>2. /\ Tail(t.buffered) \in Seq(DeliveryAnswer)
        /\ \A i \in DOMAIN Tail(t.buffered) :
              i + 1 \in DOMAIN t.buffered /\ Tail(t.buffered)[i] = t.buffered[i + 1]
        /\ 1 \in DOMAIN t.buffered /\ m = t.buffered[1] /\ m \in DeliveryAnswer
    BY <2>1
  <2>3. m \in AnswerType /\ m.kind = "delivery"
    BY <2>2, Zenon DEF AnswerType, DeliveryAnswer
  <2>4. AnswerGenuine(m, Row, History)
    <3>1. Genuine(m.d, Row, History)
      BY <1>1, <2>2, Zenon DEF Standing
    <3> QED
      BY <2>3, <3>1 DEF AnswerGenuine
  <2> HIDE DEF m
  <2>5. /\ from \in TransportType /\ from.accepted = t.accepted /\ from.ackseq = t.ackseq
        /\ from.inflight = t.inflight /\ from.resume = t.resume /\ from.ack = t.ack
        /\ from.buffered = Tail(t.buffered)
    BY <1>1, <2>2, Zenon DEF TransportType
  <2> HIDE DEF from
  <2>6. Standing(from, Row, History, saved, ingested)
    <3>1. \A i \in DOMAIN from.buffered : \E j \in DOMAIN t.buffered : from.buffered[i] = t.buffered[j]
      BY <2>2, <2>5, Zenon
    <3> QED
      BY <1>1, <2>5, <3>1, StandsStill, Zenon
  <2>7. client'.conn = client.conn => NetShrinks /\ net' \in [Stream -> ChannelType]
    BY <2>1, QuietNet, Zenon
  <2> QED
    BY <1>1, <2>1, <2>3, <2>4, <2>5, <2>6, <2>7, NextKeeps
<1> QED
  BY <1>2, <1>3, Zenon

(***************************************************************************)
(* The answer of a handshake                                               *)
(***************************************************************************)
LEMMA ProofSequence ==
    ASSUME NEW p \in Proofs
    PROVE  TokenSequence(p.token) \in 1..MaxSequence
<1>1. PICK n \in 1..MaxSequence : p.token = Token(n)
  BY Zenon DEF Proofs
<1> QED
  BY <1>1, TokenOfSequence, BoundAssumption

\* The last delivery taken is at most one ahead of what is acknowledged.
LEMMA TakenInReach ==
    ASSUME SessionBase, SessionInv, ingested # <<>>
    PROVE  ingested[Len(ingested)].seq <= AckedSequence(Row) + 1
<1> DEFINE last == ingested[Len(ingested)]
<1>1. /\ ingested \in Seq(DeliveryType)
      /\ \/ Row.pending = last
         \/ Row.runtime # None /\ Row.runtime = last.cursor /\ last.cursor.seq = last.seq
  BY DEF SessionInv, SessionTypes, SavedInv, SavedAt
<1>2. last \in DeliveryType /\ last # None
  BY <1>1, LastIngested, Zenon
<1>3. last.seq \in 1..MaxSequence /\ AckedSequence(Row) \in Nat
  BY <1>2, RowFacts DEF RowSound, DeliveryType
<1> HIDE DEF last
<1>4. CASE Row.pending = last
  BY <1>2, <1>3, <1>4, RowFacts DEF RowSound, last
<1>5. CASE Row.runtime # None /\ Row.runtime = last.cursor /\ last.cursor.seq = last.seq
  <2>1. Row.runtime.seq <= AckedSequence(Row)
    BY <1>5, RowFacts DEF RowSound, ValidatePersistedSession, ValidateCursors, EmptyRow,
       AckedSequence
  <2> QED
    BY <1>3, <1>5, <2>1, BoundAssumption DEF last
<1> QED
  BY <1>1, <1>4, <1>5, Zenon

\* What validate_reconnected_authority lets pass leaves the client where the
\* store is.
LEMMA ReconnectedStands ==
    ASSUME SessionBase, SessionInv, t \in TransportType,
           Standing(t, Row, History, saved, ingested),
           NEW accepted \in AcceptedFields, accepted.acked = Row.acked,
           ValidateReconnectedAuthority(t, accepted)
    PROVE  /\ Reconnected(t, accepted) \in TransportType
           /\ Standing(Reconnected(t, accepted), Row, History, saved, ingested)
           /\ t.apply # None => Reconnected(t, accepted).apply # None
           /\ (t.ack # None) = (Reconnected(t, accepted).ack # None)
           /\ Reconnected(t, accepted).inflight = t.inflight
<1> DEFINE tr == Reconnected(t, accepted)
           ap == IF t.apply = None THEN None ELSE [t.apply EXCEPT !.sent = FALSE]
           ac == IF t.ack = None THEN None ELSE [t.ack EXCEPT !.sent = FALSE]
           acked == AckedSequence(Row)
<1>1. CursorSequence(accepted.acked) = acked /\ acked \in 0..MaxSequence
  BY RowFacts, Zenon DEF CursorSequence, AckedSequence, RowSound
<1>2. HelloSequence(t) \in 0..MaxSequence
  BY ProofSequence, BoundAssumption DEF HelloSequence, TransportType
<1>3. ap \in [sent : BOOLEAN, value : Requests] \cup {None}
  BY Zenon DEF TransportType
<1>4. ac \in [sent : BOOLEAN, value : Acknowledgements] \cup {None}
  BY Zenon DEF TransportType
<1>5. /\ t.apply # None => ap # None
      /\ t.ack # None => ac # None /\ ac.value = t.ack.value
  <2>1. t.apply # None => ap \in [sent : BOOLEAN, value : Requests \cup Acknowledgements]
    BY Zenon DEF TransportType
  <2>2. t.ack # None => /\ ac \in [sent : BOOLEAN, value : Requests \cup Acknowledgements]
                        /\ ac.value = t.ack.value
    BY Zenon DEF TransportType
  <2> HIDE DEF ap, ac
  <2> QED
    BY <2>1, <2>2, SessionAssumption, Zenon
<1>6. tr = [t EXCEPT !.accepted = accepted, !.ackseq = acked, !.helloseq = HelloSequence(t),
                     !.buffered = <<>>, !.apply = ap, !.ack = ac, !.demand = FALSE,
                     !.rehello = FALSE]
  BY <1>1, Zenon DEF Reconnected
<1>7. t.ack = None => ac = None
  BY Zenon
<1> HIDE DEF tr, ap, ac, acked
<1>8. <<>> \in Seq(DeliveryAnswer)
  OBVIOUS
<1>9. /\ tr \in TransportType /\ tr.accepted = accepted /\ tr.ackseq = acked
      /\ tr.inflight = t.inflight /\ tr.resume = t.resume /\ tr.buffered = <<>>
      /\ tr.apply = ap /\ tr.ack = ac
  BY <1>1, <1>2, <1>3, <1>4, <1>6, <1>8, Zenon DEF TransportType
<1>10. /\ t.ackseq \in 0..MaxSequence /\ acked \in {t.ackseq, t.ackseq + 1}
       /\ acked = t.ackseq \/ (t.ack # None /\ acked = t.ack.value.seq)
  BY <1>1, Zenon DEF ValidateReconnectedAuthority, Standing, TransportType, acked
<1>11. t.inflight # None =>
          /\ t.inflight.seq \in {acked, acked + 1} /\ Genuine(t.inflight, Row, History)
          /\ \/ Row.pending = t.inflight
             \/ t.inflight.neutral \/ saved = PositionOf(t.inflight)
  <2> HIDE DEF Genuine
  <2> QED
    BY <1>10, Zenon DEF Standing
<1>12. t.ack # None =>
          /\ t.ack.value.seq \in {acked, acked + 1} /\ Backed(t.ack.value.seq, Row, saved)
          /\ t.inflight # None => t.ack.value.seq = t.inflight.seq
  BY <1>10, Zenon DEF Standing
<1>13. t.resume # None => Backed(TokenSequence(t.resume.token), Row, saved)
  BY Zenon DEF Standing
<1>14. ingested # <<>> => ingested[Len(ingested)].seq <= acked + 1
  BY TakenInReach, Zenon DEF acked
<1>15. \A i \in DOMAIN tr.buffered : Genuine(tr.buffered[i].d, Row, History)
  BY <1>9
<1>16. /\ tr.ackseq = CursorSequence(tr.accepted.acked)
       /\ AckedSequence(Row) \in {tr.ackseq, tr.ackseq + 1}
  BY <1>1, <1>9 DEF acked
<1>17. Standing(tr, Row, History, saved, ingested)
  <2> HIDE DEF Genuine, Backed
  <2> QED
    BY <1>5, <1>7, <1>9, <1>11, <1>12, <1>13, <1>14, <1>15, <1>16, Zenon DEF Standing
<1> QED
  BY <1>5, <1>7, <1>9, <1>17, Zenon DEF tr

\* A new transport stands where the store is, at the position it was given.
LEMMA NewStands ==
    ASSUME SessionBase, SessionInv, NEW accepted \in AcceptedFields, accepted.acked = Row.acked,
           NEW seq \in 0..MaxSequence, NEW resume \in Proofs \cup {None},
           resume # None => Backed(TokenSequence(resume.token), Row, saved),
           NEW tr, tr = (IF resume = None THEN NewTransport(accepted, seq, resume)
                         ELSE RestorePosition(NewTransport(accepted, seq, resume), resume))
    PROVE  tr \in TransportType /\ Standing(tr, Row, History, saved, ingested)
<1> DEFINE acked == AckedSequence(Row)
           new == NewTransport(accepted, seq, resume)
<1>1. CursorSequence(accepted.acked) = acked /\ acked \in 0..MaxSequence
  BY RowFacts, Zenon DEF CursorSequence, AckedSequence, RowSound
<1>2. <<>> \in Seq(DeliveryAnswer)
  OBVIOUS
<1> HIDE DEF acked
<1>3. /\ new \in TransportType /\ new.accepted = accepted /\ new.ackseq = acked
      /\ new.inflight = None /\ new.ack = None /\ new.resume = resume /\ new.buffered = <<>>
  BY <1>1, <1>2, Zenon DEF NewTransport, TransportType
<1> HIDE DEF new
<1>4. /\ tr \in TransportType /\ tr.accepted = accepted /\ tr.ackseq = acked
      /\ tr.inflight = None /\ tr.ack = None /\ tr.resume = resume /\ tr.buffered = <<>>
  <2>1. CASE resume = None
    BY <1>3, <2>1, Zenon DEF new
  <2>2. CASE resume # None
    <3>1. PICK rehello \in BOOLEAN :
             tr = [new EXCEPT !.ackseq = acked, !.inflight = None, !.rehello = rehello,
                              !.resume = resume, !.confirm = FALSE]
      BY <1>1, <1>3, <2>2, Zenon DEF RestorePosition, new
    <3> QED
      BY <1>1, <1>3, <3>1, Zenon DEF TransportType
  <2> QED
    BY <2>1, <2>2, Zenon
<1>5. ingested # <<>> => ingested[Len(ingested)].seq <= acked + 1
  BY TakenInReach, Zenon DEF acked
<1>6. \A i \in DOMAIN tr.buffered : Genuine(tr.buffered[i].d, Row, History)
  BY <1>4
<1>7. AckedSequence(Row) \in {tr.ackseq, tr.ackseq + 1}
  BY <1>1, <1>4, Zenon DEF acked
<1> QED
  BY <1>1, <1>4, <1>5, <1>6, <1>7, Zenon DEF Standing

\* An accepted stream becomes the client's: at that point no task has anything
\* left that could acknowledge.
LEMMA StreamAccepted ==
    ASSUME SessionBase, SessionInv, client.link = "dialing",
           UNCHANGED <<serviceVars, saved, ingested>>,
           net[client.conn].down # <<>>, IsAccepted(Head(net[client.conn].down)),
           net' = [net EXCEPT ![client.conn].down = Tail(@)],
           NEW tr \in TransportType, NEW phase \in {"new", "ready"},
           client' = [client EXCEPT !.phase = phase, !.link = "up", !.hello = None, !.t = tr],
           Standing(tr, Row, History, saved, ingested),
           Ready \/ client.op = "none",
           client.op = "apply" => tr.apply # None, client.op = "ack" => tr.ack # None,
           client.op = "next" => tr.ack = None /\ tr.inflight = None
    PROVE  SessionInv'
<1> DEFINE k == client.conn
<1>1. /\ k \in Stream /\ client \in ClientType /\ net[k].down \in Seq(AnswerType)
  BY Zenon DEF SessionInv, SessionTypes, ChannelType
<1>2. /\ client' \in ClientType /\ client'.phase = phase /\ client'.link = "up"
      /\ client'.conn = k /\ client'.t = tr /\ client'.op = client.op
  BY <1>1, Zenon DEF ClientType
<1>3. NetShrinks /\ net' \in [Stream -> ChannelType]
  BY <1>1, <1>2, ReadNet, Zenon
<1>4. /\ UNCHANGED <<streams, rows, log, saved, ingested>> /\ Row' = Row /\ History' = History
  BY DEF serviceVars, vars, Row, History
<1>5. Ready' /\ t' = tr
  BY <1>2 DEF Ready, t
<1>6. (\A c \in Stream : Fresh(c)) /\ streams[k].phase \notin {"open", "acquired"}
  <2>1. 1 \in DOMAIN net[k].down /\ Head(net[k].down) = net[k].down[1]
    BY <1>1
  <2> QED
    BY <2>1, Zenon DEF SessionInv, DialInv
<1> HIDE DEF k
<1>7. SessionTypes' /\ CallInv'
  BY <1>1, <1>2, <1>3, <1>5 DEF SessionInv, SessionTypes, CallInv
<1>8. ChannelInv'
  <2>1. ASSUME NEW e \in Stream, streams[e].phase \in {"open", "acquired"}
        PROVE  /\ Len(net'[e].up) <= 1
               /\ \A i \in DOMAIN net'[e].up : net'[e].up[i].kind = "hello"
    <3>1. /\ Len(net[e].up) <= 1 /\ \A i \in DOMAIN net[e].up : net[e].up[i].kind = "hello"
      BY <2>1, Zenon DEF SessionInv, ChannelInv
    <3>2. net[e].up \in Seq(RequestType) /\ net'[e].up \in Seq(RequestType)
      BY <1>3, Zenon DEF SessionInv, SessionTypes, ChannelType
    <3> QED
      BY <1>3, <3>1, <3>2 DEF NetShrinks
  <2>2. ASSUME NEW e \in Stream
        PROVE  (~net'[e].live => net'[e].down = <<>>) /\ (net'[e].live => e = client'.conn)
    BY <1>2, <1>3, Zenon DEF NetShrinks, SessionInv, ChannelInv, k
  <2> QED
    BY <1>2, <1>4, <1>6, <2>1, <2>2, Zenon DEF ChannelInv
<1>9. TransitInv'
  <2>1. ASSUME NEW e \in Stream PROVE TransitInv!(e)'
    <3>1. TransitInv!(e) /\ NetShrinks!(e)
      BY <1>3, Zenon DEF SessionInv, TransitInv, NetShrinks
    <3> QED
      BY <1>4, <3>1, Zenon
  <2> QED
    BY <2>1 DEF TransitInv
<1>10. ReachInv'
  <2>1. ASSUME NEW e \in Stream, streams[e].phase \in Holding,
               NEW i \in DOMAIN net'[e].up, net'[e].up[i].kind = "ack"
        PROVE  FALSE
    <3>1. PICK j \in DOMAIN net[e].up : net'[e].up[i] = net[e].up[j]
      BY <1>3, <2>1, Zenon DEF NetShrinks
    <3>2. CASE streams[e].phase = "acquired"
      BY <2>1, <3>1, <3>2, Zenon DEF SessionInv, ChannelInv
    <3>3. CASE streams[e].phase # "acquired"
      <4>1. net[e].up = <<>>
        BY <1>6, <2>1, <3>3, Zenon DEF Fresh, Holding
      <4> QED
        BY <3>1, <4>1
    <3> QED
      BY <3>2, <3>3, Zenon
  <2> QED
    BY <1>4, <2>1, Zenon DEF ReachInv
<1>11. StandingInv' /\ SavedInv' /\ DialInv'
  BY <1>2, <1>4, <1>5 DEF SessionInv, StandingInv, SavedInv, DialInv
<1> QED
  BY <1>7, <1>8, <1>9, <1>10, <1>11, Zenon DEF SessionInv

LEMMA HandshakeKeeps ==
    ASSUME SessionBase, SessionInv, Handshake
    PROVE  SessionInv'
<1> DEFINE down == net[client.conn].down
           m == Head(down)
           hello == client.hello
           accepted == [rev |-> m.rev, desired |-> m.desired,
                        acked |-> m.acked, runtime |-> m.runtime]
           new == NewTransport(accepted, hello.seq, hello.resume)
           valid == /\ ValidateHelloAuthority(accepted, hello.seq, hello.resume)
                    /\ IF Ready THEN ValidateReconnectedAuthority(t, accepted)
                       ELSE hello.resume # None =>
                              ValidateResumePosition(accepted, hello.resume)
           tr == IF Ready THEN Reconnected(t, accepted)
                 ELSE IF hello.resume = None THEN new ELSE RestorePosition(new, hello.resume)
<1>1. client.link = "dialing" /\ client.conn \in Stream /\ hello \in HelloType
  BY Zenon DEF Handshake, SessionInv, SessionTypes
<1>2. CASE \E new1 \in {client, Return(client), Faulty(client)} : HandshakeFails(new1)
  BY <1>1, <1>2, HandshakeFailsKeeps
<1>3. CASE /\ down # <<>> /\ m.kind = "accepted" /\ valid
           /\ client' = [client EXCEPT !.phase = IF Ready THEN client.phase ELSE "new",
                                       !.link = "up", !.hello = None, !.t = tr]
           /\ net' = [net EXCEPT ![client.conn].down = Tail(@)]
           /\ UNCHANGED <<serviceVars, saved, ingested>>
  <2>1. /\ m = Accepted(Row)
        /\ hello.resume # None => Backed(TokenSequence(hello.resume.token), Row, saved)
    <3>1. down \in Seq(AnswerType)
      BY <1>1 DEF SessionInv, SessionTypes, ChannelType
    <3>2. down # <<>> /\ m.kind = "accepted"
      BY <1>3, Zenon
    <3>3. 1 \in DOMAIN down /\ m = down[1]
      <4> HIDE DEF down
      <4> QED
        BY <3>1, <3>2
    <3> QED
      BY <1>1, <3>2, <3>3, Zenon DEF SessionInv, DialInv, IsAccepted
  <2>2. accepted \in AcceptedFields /\ accepted.acked = Row.acked
    <3>1. Row \in RowType
      BY RowFacts, Zenon DEF RowSound
    <3>2. /\ m.rev = Row.revision /\ m.desired = Row.desired
          /\ m.acked = Row.acked /\ m.runtime = Row.runtime
      <4> HIDE DEF m
      <4> QED
        BY <2>1, Zenon DEF Accepted
    <3> HIDE DEF m
    <3> QED
      BY <3>1, <3>2, Zenon DEF AcceptedFields, RowType
  <2>3. hello.seq \in 0..MaxSequence /\ hello.resume \in Proofs \cup {None}
    BY <1>1 DEF HelloType
  <2>4. IsAccepted(m) /\ (IF Ready THEN client.phase ELSE "new") \in {"new", "ready"}
    BY <1>3, Zenon DEF IsAccepted, Ready
  <2>5. CASE Ready
    <3>1. /\ t \in TransportType /\ Standing(t, Row, History, saved, ingested)
          /\ client.op = "apply" => t.apply # None
          /\ client.op = "ack" => t.ack # None
          /\ client.op = "next" => t.ack = None /\ t.inflight = None
      BY <2>5 DEF SessionInv, SessionTypes, StandingInv, CallInv
    <3>2. ValidateReconnectedAuthority(t, accepted) /\ tr = Reconnected(t, accepted)
      BY <1>3, <2>5, Zenon
    <3> HIDE DEF accepted, tr, m, down, hello
    <3>3. /\ tr \in TransportType /\ Standing(tr, Row, History, saved, ingested)
          /\ t.apply # None => tr.apply # None
          /\ (t.ack # None) = (tr.ack # None) /\ tr.inflight = t.inflight
      BY <2>2, <3>1, <3>2, ReconnectedStands, Zenon
    <3> QED
      BY <1>1, <1>3, <2>4, <2>5, <3>1, <3>3, StreamAccepted, Zenon DEF m, down
  <2>6. CASE ~Ready
    <3>1. client.op = "none"
      BY <2>6 DEF SessionInv, CallInv
    <3>2. tr = IF hello.resume = None THEN NewTransport(accepted, hello.seq, hello.resume)
               ELSE RestorePosition(NewTransport(accepted, hello.seq, hello.resume), hello.resume)
      BY <2>6, Zenon
    <3> HIDE DEF accepted, tr, m, down, hello
    <3>3. tr \in TransportType /\ Standing(tr, Row, History, saved, ingested)
      BY <2>1, <2>2, <2>3, <3>2, NewStands, Zenon
    <3> QED
      BY <1>1, <1>3, <2>4, <3>1, <3>3, StreamAccepted, Zenon DEF m, down
  <2> QED
    BY <2>5, <2>6
<1> QED
  BY <1>2, <1>3, Zenon DEF Handshake

(***************************************************************************)
(* A stream is opened                                                      *)
(***************************************************************************)
LEMMA OpeningKeeps ==
    ASSUME SessionBase, SessionInv, NEW c \in Stream, NEW hello \in HelloType,
           client.link = "down", Opening(c, hello),
           hello.resume # None => Backed(TokenSequence(hello.resume.token), Row, saved)
    PROVE  SessionInv'
<1> DEFINE n == [Silent EXCEPT !.live = TRUE, !.up = <<hello>>]
<1>1. /\ client \in ClientType /\ net \in [Stream -> ChannelType] /\ client.conn = None
      /\ streams \in [Stream -> StreamType]
  BY Zenon DEF SessionInv, SessionTypes, SessionBase
<1>2. \A e \in Stream : ~net[e].live
  BY <1>1, SessionAssumption DEF SessionInv, ChannelInv
<1>3. /\ client' = [client EXCEPT !.link = "dialing", !.conn = c, !.hello = hello]
      /\ net' = [net EXCEPT ![c] = n] /\ streams' = [streams EXCEPT ![c].phase = "open"]
      /\ UNCHANGED <<vars, saved, ingested>>
  BY DEF Opening, Connect, GoTo
<1>4. /\ n \in ChannelType /\ n.live /\ n.up = <<hello>> /\ n.down = <<>>
  <2>1. hello \in RequestType /\ <<hello>> \in Seq(RequestType) /\ <<>> \in Seq(AnswerType)
    BY DEF RequestType
  <2> QED
    BY <2>1, Zenon DEF Silent, ChannelType
<1> HIDE DEF n
<1>5. /\ net' \in [Stream -> ChannelType] /\ net'[c] = n
      /\ \A e \in Stream \ {c} : net'[e] = net[e]
  BY <1>1, <1>3, <1>4
<1>6. /\ streams'[c].phase = "open"
      /\ \A e \in Stream \ {c} : streams'[e] = streams[e]
  BY <1>1, <1>3 DEF StreamType
<1>7. /\ client' \in ClientType /\ client'.link = "dialing" /\ client'.conn = c
      /\ client'.hello = hello /\ client'.phase = client.phase /\ client'.t = client.t
      /\ client'.op = client.op
  BY <1>1, <1>3, Zenon DEF ClientType
<1>8. /\ UNCHANGED <<rows, log, saved, ingested>> /\ Row' = Row /\ History' = History
      /\ Ready' = Ready /\ t' = t
  BY <1>3, <1>7 DEF vars, Row, History, Ready, t
<1>9. /\ hello.kind = "hello" /\ Len(n.up) <= 1 /\ DOMAIN n.up = {1} /\ n.up[1] = hello
      /\ DOMAIN n.down = {}
  BY <1>4 DEF HelloType
<1>10. SessionTypes' /\ CallInv'
  BY <1>5, <1>7, <1>8, Zenon DEF SessionInv, SessionTypes, CallInv
<1>11. ChannelInv'
  <2>1. ASSUME NEW e \in Stream PROVE ChannelInv!1!(e)'
    <3>1. CASE e = c
      <4>1. net'[e] = n /\ client'.conn = e /\ \A i \in DOMAIN n.up : n.up[i].kind = "hello"
        BY <1>5, <1>7, <1>9, <3>1, Zenon
      <4> QED
        BY <1>4, <1>9, <4>1, Zenon
    <3>2. CASE e # c
      <4>1. ChannelInv!1!(e)
        BY Zenon DEF SessionInv, ChannelInv
      <4> QED
        BY <1>2, <1>5, <1>6, <3>2, <4>1, Zenon
    <3> QED
      BY <3>1, <3>2
  <2> QED
    BY <1>7, <2>1, Zenon DEF ChannelInv
<1>12. TransitInv'
  <2>1. ASSUME NEW e \in Stream PROVE TransitInv!(e)'
    <3>1. CASE e = c
      BY <1>5, <1>9, <3>1, Zenon DEF RequestBacked
    <3>2. CASE e # c
      <4>1. TransitInv!(e)
        BY Zenon DEF SessionInv, TransitInv
      <4> QED
        BY <1>5, <1>8, <3>2, <4>1, Zenon
    <3> QED
      BY <3>1, <3>2
  <2> QED
    BY <2>1, Zenon DEF TransitInv
<1>13. ReachInv'
  <2>1. \A e \in Stream : streams'[e].phase \in Holding =>
            streams[e].phase \in Holding /\ net'[e] = net[e]
    BY <1>5, <1>6, Zenon DEF Holding
  <2> QED
    BY <1>8, <2>1, Zenon DEF SessionInv, ReachInv
<1>14. StandingInv' /\ SavedInv'
  BY <1>8 DEF SessionInv, StandingInv, SavedInv
<1>15. DialInv'
  BY <1>5, <1>6, <1>7, <1>8, <1>9, Zenon DEF DialInv, Fresh
<1> QED
  BY <1>10, <1>11, <1>12, <1>13, <1>14, <1>15 DEF SessionInv

LEMMA DialKeeps ==
    ASSUME SessionBase, SessionInv, NEW c \in Stream, Construct(c) \/ Reconnect(c)
    PROVE  SessionInv'
<1>1. CASE Construct(c)
  <2>1. PICK position \in {None, saved} :
           Opening(c, [kind |-> "hello", resume |-> position,
                       seq |-> IF position = None THEN 0 ELSE TokenSequence(position.token)])
    BY <1>1, Zenon DEF Construct
  <2> DEFINE hello == [kind |-> "hello", resume |-> position,
                       seq |-> IF position = None THEN 0 ELSE TokenSequence(position.token)]
  <2>2. hello \in HelloType
    BY SavedIsBacked, BoundAssumption DEF HelloType
  <2>3. hello.resume # None => Backed(TokenSequence(hello.resume.token), Row, saved)
    BY SavedIsBacked, Zenon
  <2> HIDE DEF hello
  <2> QED
    BY <1>1, <2>1, <2>2, <2>3, OpeningKeeps, Zenon DEF Construct, hello
<1>2. CASE Reconnect(c)
  <2> DEFINE hello == [kind |-> "hello", resume |-> t.resume, seq |-> HelloSequence(t)]
  <2>1. t \in TransportType /\ Standing(t, Row, History, saved, ingested)
    BY <1>2, Zenon DEF Reconnect, SessionInv, SessionTypes, StandingInv
  <2>2. HelloSequence(t) \in 0..MaxSequence
    <3>1. t.resume \in Proofs \cup {None}
      BY <2>1, Zenon DEF TransportType
    <3>2. t.ackseq \in 0..MaxSequence
      BY <2>1, AckSequences, Zenon
    <3>3. t.resume # None => TokenSequence(t.resume.token) \in 1..MaxSequence
      BY <3>1, ProofSequence, Zenon
    <3> QED
      BY <3>2, <3>3, BoundAssumption DEF HelloSequence
  <2>3. hello \in HelloType
    BY <2>1, <2>2 DEF HelloType, TransportType
  <2>4. hello.resume # None => Backed(TokenSequence(hello.resume.token), Row, saved)
    BY <2>1, Zenon DEF Standing
  <2> HIDE DEF hello
  <2> QED
    BY <1>2, <2>3, <2>4, OpeningKeeps, Zenon DEF Reconnect, hello
<1> QED
  BY <1>1, <1>2, Zenon

(***************************************************************************)
(* A delivery is taken in                                                  *)
(***************************************************************************)
\* What the runtime takes is the outbox item: had it been acknowledged, its
\* position would have been saved before.
LEMMA TakesOutbox ==
    ASSUME SessionBase, SessionInv, Ingest
    PROVE  /\ Row.pending = t.inflight /\ t.inflight \in DeliveryType /\ Row.pending # None
           /\ t \in TransportType /\ ~t.inflight.neutral
           /\ saved' = PositionOf(Row.pending) /\ saved' \in Proofs
           /\ ingested' = Append(ingested, Row.pending)
<1>1. /\ t \in TransportType /\ Standing(t, Row, History, saved, ingested)
      /\ t.inflight # None /\ ~t.inflight.neutral /\ saved # PositionOf(t.inflight)
  BY Zenon DEF Ingest, SessionInv, SessionTypes, StandingInv
<1>2. Row.pending = t.inflight /\ Row.pending # None
  BY <1>1, Zenon DEF Standing
<1>3. /\ Row.pending \in DeliveryType /\ Row.pending.token = Token(Row.pending.seq)
      /\ Row.pending.seq \in 1..MaxSequence /\ Row.pending.cursor.head \in OptBlock
  BY <1>2, RowFacts DEF RowSound, DeliveryType, Cursor
<1>4. PositionOf(Row.pending) \in Proofs
  BY <1>3, Zenon DEF PositionOf, Proofs
<1> QED
  BY <1>1, <1>2, <1>3, <1>4, Zenon DEF Ingest

LEMMA IngestKeeps ==
    ASSUME SessionBase, SessionInv, Ingest
    PROVE  SessionInv'
<1> DEFINE d == Row.pending
<1>1. /\ d = t.inflight /\ d \in DeliveryType /\ d # None /\ t \in TransportType /\ ~d.neutral
      /\ saved' = PositionOf(d) /\ saved' \in Proofs /\ ingested' = Append(ingested, d)
  BY TakesOutbox, Zenon
<1>2. /\ UNCHANGED <<serviceVars, client, net>> /\ UNCHANGED <<streams, rows, log>>
      /\ Row' = Row /\ History' = History /\ Ready' = Ready /\ t' = t /\ Ready
  BY Zenon DEF Ingest, serviceVars, vars, Row, History, Ready, t
<1>3. ingested \in Seq(DeliveryType)
  BY Zenon DEF SessionInv, SessionTypes
<1> HIDE DEF d
<1>4. /\ ingested' \in Seq(DeliveryType) /\ ingested' # <<>> /\ ingested'[Len(ingested')] = d
  BY <1>1, <1>3
<1>5. ASSUME NEW n, Backed(n, Row, saved) PROVE Backed(n, Row, saved')
  BY <1>1, <1>5, Zenon DEF Backed, d
<1>6. SessionTypes' /\ CallInv' /\ ChannelInv' /\ ReachInv'
  BY <1>1, <1>2, <1>4, Zenon
  DEF SessionInv, SessionTypes, CallInv, ChannelInv, ReachInv, Fresh
<1>7. TransitInv'
  BY <1>2, <1>5, Zenon DEF SessionInv, TransitInv, RequestBacked
<1>8. StandingInv'
  <2>1. Standing(t, Row, History, saved, ingested)
    BY <1>2, Zenon DEF SessionInv, StandingInv
  <2>2. d.seq <= t.ackseq + 1
    <3>1. d.seq \in {t.ackseq, t.ackseq + 1} /\ t.ackseq \in 0..MaxSequence
      BY <1>1, <2>1, AckSequences, Zenon DEF Standing
    <3> QED
      BY <3>1
  <2>3. Standing(t, Row, History, saved', ingested')
    <3> HIDE DEF Backed, Genuine
    <3> QED
      BY <1>1, <1>4, <1>5, <2>1, <2>2, Zenon DEF Standing, d
  <2> QED
    BY <1>2, <2>3, Zenon DEF StandingInv
<1>9. SavedInv'
  BY <1>1, <1>2, <1>4, Zenon DEF SavedInv, SavedAt, d
<1>10. DialInv'
  BY <1>2, <1>5, Zenon DEF SessionInv, DialInv, Fresh
<1> QED
  BY <1>6, <1>7, <1>8, <1>9, <1>10, Zenon DEF SessionInv

-----------------------------------------------------------------------------
LEMMA ClientKeeps ==
    ASSUME SessionBase, SessionInv, ClientStep
    PROVE  SessionInv'
  BY DialKeeps, HandshakeKeeps, LosesStreamKeeps, RestoreKeeps, CallsKeep, SendRequestKeeps,
     ReceiveKeeps, IngestKeeps, CrashKeeps, Zenon DEF ClientStep

\* Of the service's variables the client moves only the stream it opens.
LEMMA ClientIsService ==
    ASSUME ClientStep
    PROVE  (\E c \in Stream : Connect(c)) \/ UNCHANGED serviceVars
  BY Zenon
  DEF ClientStep, Construct, Reconnect, Opening, Handshake, HandshakeFails, LoseStream,
      PresentPosition, CallRestore, CallApply, CallNext, CallAck, Call, SendRequest, Send,
      Receive, TakeBuffered, Cancel, Ingest, ClientCrash

(***************************************************************************)
(* What a step of the service leaves true of the client                    *)
(***************************************************************************)
\* What was backed or genuine stays so.
LEMMA StaysBacked ==
    ASSUME SessionBase, SessionBase', RowMoves, NEW n \in Nat, Backed(n, Row, saved)
    PROVE  Backed(n, Row', saved)
<1>1. /\ AckedSequence(Row) \in Nat
      /\ Row.pending # None => Row.pending.seq = AckedSequence(Row) + 1
      /\ AckedSequence(Row') = Len(History') /\ AckedSequence(Row) = Len(History)
      /\ History \in Seq(DeliveryType)
  BY RowFacts, RowFactsNext DEF RowSound
<1>2. CASE RowStays
  BY <1>2, Zenon DEF RowStays
<1>3. CASE RowOffers
  BY <1>1, <1>3, Zenon DEF RowOffers, Backed
<1>4. CASE RowAcks
  BY <1>1, <1>4 DEF RowAcks, Backed
<1> QED
  BY <1>2, <1>3, <1>4, Zenon DEF RowMoves

LEMMA StaysGenuine ==
    ASSUME SessionBase, SessionBase', RowMoves, NEW d \in DeliveryType,
           Genuine(d, Row, History)
    PROVE  Genuine(d, Row', History')
<1>1. /\ AckedSequence(Row) = Len(History) /\ History \in Seq(DeliveryType)
      /\ d.seq \in Nat /\ d.seq >= 1 /\ d # None
      /\ Row.pending # None => Row.pending.seq = AckedSequence(Row) + 1
  BY RowFacts, NoneAssumption DEF DeliveryType, RowSound
<1>2. CASE RowStays
  BY <1>2, Zenon DEF RowStays
<1>3. CASE RowOffers
  BY <1>1, <1>3, Zenon DEF RowOffers, Genuine
<1>4. CASE RowAcks
  BY <1>1, <1>4 DEF RowAcks, Genuine
<1> QED
  BY <1>2, <1>3, <1>4, Zenon DEF RowMoves

\* An acknowledgement is served only for an item that is neutral or whose
\* effects are saved.
AckIsBacked == RowAcks => Row.pending.neutral \/ saved = PositionOf(Row.pending)

LEMMA StaysSaved ==
    ASSUME SessionBase, SessionBase', RowMoves, SavedInv, AckIsBacked,
           saved \in Proofs \cup {None}, ingested \in Seq(DeliveryType)
    PROVE  SavedAt(Row', saved, ingested)
<1> DEFINE last == ingested[Len(ingested)]
<1>1. ingested # <<>> => last \in DeliveryType /\ last # None
  BY NoneAssumption
<1>2. CASE RowStays
  BY <1>2, Zenon DEF RowStays, SavedInv
<1>3. CASE RowOffers
  BY <1>1, <1>3 DEF RowOffers, SavedInv, SavedAt
<1>4. CASE RowAcks
  <2>1. /\ Row.pending \in DeliveryType /\ Row.pending.token = Token(Row.pending.seq)
        /\ Row.pending.seq = AckedSequence(Row) + 1 /\ Row.pending.cursor.seq = Row.pending.seq
        /\ AckedSequence(Row) \in Nat /\ Row.pending.cursor # None /\ PositionOf(Row.pending) # None
    <3>1. /\ Row.pending \in DeliveryType /\ Row.pending.token = Token(Row.pending.seq)
          /\ Row.pending.seq = AckedSequence(Row) + 1 /\ Row.pending.cursor.seq = Row.pending.seq
          /\ AckedSequence(Row) \in Nat
      BY <1>4, RowFacts DEF RowAcks, RowSound
    <3>2. PositionOf(Row.pending) \in Proofs /\ Row.pending.cursor \in Cursor
      BY <3>1, Zenon DEF DeliveryType, PositionOf, Proofs, Cursor
    <3> QED
      BY <3>1, <3>2, NoneAssumption, SessionAssumption, Zenon
  <2>2. CASE ingested = <<>>
    BY <1>4, <2>1, <2>2, Zenon DEF RowAcks, SavedInv, SavedAt, AckIsBacked
  <2>3. CASE ingested # <<>> /\ Row.pending = last
    BY <1>4, <2>1, <2>3, Zenon DEF RowAcks, SavedInv, SavedAt
  <2>4. CASE ingested # <<>> /\ Row.pending # last
    <3>1. /\ saved = PositionOf(last) /\ ~last.neutral /\ Row.runtime # None
          /\ Row.runtime = last.cursor /\ last.token = Token(last.seq)
          /\ last.cursor.seq = last.seq
      BY <2>4, Zenon DEF SavedInv, SavedAt
    <3>2. Row.pending.neutral
      <4> SUFFICES ASSUME ~Row.pending.neutral PROVE FALSE
        BY Zenon
      <4>1. last.token = Row.pending.token
        BY <1>4, <3>1, Zenon DEF AckIsBacked, PositionOf
      <4>2. last.seq = Row.pending.seq
        <5>1. last.seq \in Nat /\ Row.pending.seq \in Nat
          BY <1>1, <2>1, <2>4 DEF DeliveryType
        <5>2. TokenSequence(Token(last.seq)) = last.seq
              /\ TokenSequence(Token(Row.pending.seq)) = Row.pending.seq
          BY <5>1, TokenOfSequence, Zenon
        <5> QED
          BY <2>1, <3>1, <4>1, <5>2, Zenon
      <4>3. Row.runtime.seq <= AckedSequence(Row)
        BY <3>1, RowFacts DEF RowSound, ValidatePersistedSession, ValidateCursors, EmptyRow,
           AckedSequence
      <4> QED
        BY <2>1, <3>1, <4>2, <4>3
    <3> QED
      BY <1>4, <2>4, <3>1, <3>2, Zenon DEF RowAcks, SavedAt
  <2> QED
    BY <2>2, <2>3, <2>4, Zenon
<1> QED
  BY <1>2, <1>3, <1>4, Zenon DEF RowMoves

LEMMA StaysStanding ==
    ASSUME SessionBase, SessionBase', RowMoves, AckIsBacked, NEW tr \in TransportType,
           Standing(tr, Row, History, saved, ingested),
           RowAcks => Row.pending.seq <= tr.ackseq + 1
    PROVE  Standing(tr, Row', History', saved, ingested)
<1>1. /\ AckedSequence(Row) = Len(History) /\ History \in Seq(DeliveryType)
      /\ AckedSequence(Row') = Len(History')
      /\ Row.pending # None => Row.pending.seq = AckedSequence(Row) + 1
  BY RowFacts, RowFactsNext, Zenon DEF RowSound
<1>2. /\ tr.ackseq \in Nat /\ tr.inflight \in DeliveryType \cup {None}
      /\ tr.ack # None => tr.ack.value.seq \in Nat
      /\ tr.resume # None => TokenSequence(tr.resume.token) \in Nat
      /\ \A i \in DOMAIN tr.buffered : tr.buffered[i].d \in DeliveryType
  <2>1. tr.resume # None => TokenSequence(tr.resume.token) \in Nat
    BY TokenOfSequence DEF TransportType, Proofs
  <2>2. \A i \in DOMAIN tr.buffered : tr.buffered[i].d \in DeliveryType
    <3>1. tr.buffered \in Seq(DeliveryAnswer)
      BY Zenon DEF TransportType
    <3>2. \A i \in DOMAIN tr.buffered : tr.buffered[i] \in DeliveryAnswer
      BY <3>1
    <3> QED
      BY <3>2, Zenon DEF DeliveryAnswer
  <2>3. tr.ack # None => tr.ack.value \in Acknowledgements
    BY Zenon DEF TransportType
  <2>4. \A a \in Acknowledgements : a.seq \in Nat
    BY DEF Acknowledgements
  <2>5. tr.ackseq \in Nat /\ tr.inflight \in DeliveryType \cup {None}
    <3>1. tr.ackseq \in 0..MaxSequence
      BY AckSequences, Zenon
    <3>2. tr.ackseq \in Nat
      BY <3>1
    <3> QED
      BY <3>2, Zenon DEF TransportType
  <2> QED
    BY <2>1, <2>2, <2>3, <2>4, <2>5, Zenon
<1>3. AckedSequence(Row') \in {tr.ackseq, tr.ackseq + 1}
  <2>1. CASE RowStays \/ RowOffers
    BY <1>1, <2>1, Zenon DEF RowStays, RowOffers, Standing
  <2>2. CASE RowAcks
    <3>1. /\ History' = Append(History, Row.pending)
          /\ Row.pending.seq = AckedSequence(Row) + 1 /\ Row.pending.seq <= tr.ackseq + 1
      BY <1>1, <2>2, Zenon DEF RowAcks
    <3>2. AckedSequence(Row) \in {tr.ackseq, tr.ackseq + 1}
      BY Zenon DEF Standing
    <3>3. Len(History') = Len(History) + 1 /\ Len(History) \in Nat
      BY <1>1, <3>1
    <3>4. AckedSequence(Row) = tr.ackseq
      BY <1>1, <1>2, <3>1, <3>2, <3>3
    <3> QED
      BY <1>1, <3>3, <3>4, Zenon
  <2> QED
    BY <2>1, <2>2, Zenon DEF RowMoves
<1>4. tr.inflight # None =>
          /\ tr.inflight.seq \in {tr.ackseq, tr.ackseq + 1} /\ Genuine(tr.inflight, Row', History')
          /\ \/ Row'.pending = tr.inflight
             \/ tr.inflight.neutral \/ saved = PositionOf(tr.inflight)
  <2> SUFFICES ASSUME tr.inflight # None
               PROVE  /\ tr.inflight.seq \in {tr.ackseq, tr.ackseq + 1}
                      /\ Genuine(tr.inflight, Row', History')
                      /\ \/ Row'.pending = tr.inflight
                         \/ tr.inflight.neutral \/ saved = PositionOf(tr.inflight)
    BY Zenon
  <2>1. tr.inflight \in DeliveryType
    BY <1>2
  <2>2. /\ tr.inflight.seq \in {tr.ackseq, tr.ackseq + 1} /\ Genuine(tr.inflight, Row, History)
        /\ \/ Row.pending = tr.inflight
           \/ tr.inflight.neutral \/ saved = PositionOf(tr.inflight)
    BY Zenon DEF Standing
  <2>3. Genuine(tr.inflight, Row', History')
    BY <2>1, <2>2, StaysGenuine, Zenon
  <2> QED
    BY <2>2, <2>3, Zenon DEF RowMoves, RowStays, RowOffers, RowAcks, AckIsBacked
<1>5. tr.ack # None => Backed(tr.ack.value.seq, Row', saved)
  BY <1>2, StaysBacked, Zenon DEF Standing
<1>6. tr.resume # None => Backed(TokenSequence(tr.resume.token), Row', saved)
  BY <1>2, StaysBacked, Zenon DEF Standing
<1>7. \A i \in DOMAIN tr.buffered : Genuine(tr.buffered[i].d, Row', History')
  BY <1>2, StaysGenuine, Zenon DEF Standing
<1> QED
  BY <1>3, <1>4, <1>5, <1>6, <1>7, Zenon DEF Standing

(***************************************************************************)
(* What a step of a task does to its stream                                *)
(***************************************************************************)
\* An answer tells the truth about the row, and an acceptance is the whole of it.
AnswerSound(c, m) ==
    /\ m \in AnswerType /\ AnswerGenuine(m, Row', History')
    /\ IsAccepted(m) => /\ m = Accepted(Row')
                        /\ streams[c].phase \in Holding /\ streams'[c].phase = "idle"

\* Messages are read from the head of the stream and answered at its end.
NetEffect(c) ==
    /\ net' \in [Stream -> ChannelType]
    /\ \A e \in Stream \ {c} : net'[e] = net[e]
    /\ net'[c].live = net[c].live /\ (~net[c].live => net'[c].down = <<>>)
    /\ Len(net'[c].up) <= Len(net[c].up)
    /\ \A i \in DOMAIN net'[c].up : \E j \in DOMAIN net[c].up : net'[c].up[i] = net[c].up[j]
    /\ \A i \in DOMAIN net'[c].down :
          \/ \E j \in DOMAIN net[c].down : net'[c].down[i] = net[c].down[j]
          \/ AnswerSound(c, net'[c].down[i])

Shortened(up, new) == new = up \/ new = <<>> \/ (up # <<>> /\ new = Tail(up))

LEMMA ShortenedUp ==
    ASSUME NEW up \in Seq(RequestType), NEW new, Shortened(up, new)
    PROVE  /\ new \in Seq(RequestType) /\ Len(new) <= Len(up)
           /\ \A i \in DOMAIN new : \E j \in DOMAIN up : new[i] = up[j]
<1>1. CASE new = up
  BY <1>1
<1>3. CASE new = <<>>
  BY <1>3
<1>2. CASE up # <<>> /\ new = Tail(up)
  <2>1. new \in Seq(RequestType) /\ Len(new) <= Len(up)
    BY <1>2
  <2>2. ASSUME NEW i \in DOMAIN new PROVE \E j \in DOMAIN up : new[i] = up[j]
    <3>1. i + 1 \in DOMAIN up /\ new[i] = up[i + 1]
      BY <1>2, <2>2
    <3> QED
      BY <3>1, Zenon
  <2> QED
    BY <2>1, <2>2
<1> QED
  BY <1>1, <1>2, <1>3 DEF Shortened

LEMMA NoAnswer ==
    ASSUME SessionTypes, ChannelInv, NEW c \in Stream, NEW n, net' = [net EXCEPT ![c] = n],
           n \in ChannelType, n.live = net[c].live, Shortened(net[c].up, n.up),
           n.down = net[c].down
    PROVE  NetEffect(c)
<1>1. /\ net \in [Stream -> ChannelType] /\ net[c] \in ChannelType
      /\ net' \in [Stream -> ChannelType] /\ net'[c] = n
      /\ \A e \in Stream \ {c} : net'[e] = net[e]
  BY Zenon DEF SessionTypes
<1>2. net[c].up \in Seq(RequestType)
  BY <1>1, Zenon DEF ChannelType
<1>3. /\ Len(n.up) <= Len(net[c].up)
      /\ \A i \in DOMAIN n.up : \E j \in DOMAIN net[c].up : n.up[i] = net[c].up[j]
  BY <1>2, ShortenedUp
<1>4. ~net[c].live => n.down = <<>>
  BY DEF ChannelInv
<1> QED
  BY <1>1, <1>3, <1>4, Zenon DEF NetEffect

LEMMA OneAnswer ==
    ASSUME SessionTypes, NEW c \in Stream, NEW n, net' = [net EXCEPT ![c] = n],
           n \in ChannelType, n.live = net[c].live, Shortened(net[c].up, n.up),
           NEW m, n.down = (IF net[c].live THEN Append(net[c].down, m) ELSE <<>>),
           AnswerSound(c, m)
    PROVE  NetEffect(c)
<1>1. /\ net \in [Stream -> ChannelType] /\ net[c] \in ChannelType
      /\ net' \in [Stream -> ChannelType] /\ net'[c] = n
      /\ \A e \in Stream \ {c} : net'[e] = net[e]
  BY Zenon DEF SessionTypes
<1>2. net[c].up \in Seq(RequestType) /\ net[c].down \in Seq(AnswerType)
  BY <1>1, Zenon DEF ChannelType
<1>3. /\ Len(n.up) <= Len(net[c].up)
      /\ \A i \in DOMAIN n.up : \E j \in DOMAIN net[c].up : n.up[i] = net[c].up[j]
  BY <1>2, ShortenedUp
<1>4. ASSUME NEW i \in DOMAIN n.down
      PROVE  \/ \E j \in DOMAIN net[c].down : n.down[i] = net[c].down[j]
             \/ AnswerSound(c, n.down[i])
  <2>1. net[c].live /\ n.down = Append(net[c].down, m)
    BY <1>4
  <2>2. CASE i = Len(net[c].down) + 1
    <3>1. n.down[i] = m
      BY <1>2, <2>1, <2>2
    <3> QED
      BY <3>1, Zenon
  <2>3. CASE i # Len(net[c].down) + 1
    <3>1. i \in DOMAIN net[c].down /\ n.down[i] = net[c].down[i]
      BY <1>2, <1>4, <2>1, <2>3
    <3> QED
      BY <3>1, Zenon
  <2> QED
    BY <2>2, <2>3, Zenon
<1> QED
  BY <1>1, <1>3, <1>4, Zenon DEF NetEffect

\* The three ways in which a task answers or does not.
LEMMA SentChannel ==
    ASSUME NEW n \in ChannelType, NEW m \in AnswerType
    PROVE  /\ Sent(n, <<m>>) \in ChannelType /\ Sent(n, <<>>) \in ChannelType
           /\ \A answers : Sent(n, answers).live = n.live /\ Sent(n, answers).up = n.up
           /\ Sent(n, <<m>>).down = (IF n.live THEN Append(n.down, m) ELSE <<>>)
           /\ Sent(n, <<>>).down = (IF n.live THEN n.down ELSE <<>>)
<1>1. /\ n.down \in Seq(AnswerType) /\ n.down \o <<m>> = Append(n.down, m)
      /\ n.down \o <<>> = n.down /\ Append(n.down, m) \in Seq(AnswerType)
      /\ <<>> \in Seq(AnswerType)
  BY DEF ChannelType
<1>2. /\ Sent(n, <<m>>) = [n EXCEPT !.down = IF n.live THEN Append(n.down, m) ELSE <<>>]
      /\ Sent(n, <<>>) = [n EXCEPT !.down = IF n.live THEN n.down ELSE <<>>]
  BY <1>1, Zenon DEF Sent
<1>3. \A answers : Sent(n, answers).live = n.live /\ Sent(n, answers).up = n.up
  BY DEF Sent, ChannelType
<1> QED
  BY <1>1, <1>2, <1>3, Zenon DEF ChannelType

LEMMA ConsumeEffect ==
    ASSUME SessionTypes, ChannelInv, NEW c \in Stream, net[c].up # <<>>, NEW answers,
           Consume(c, answers),
           answers = <<>> \/ \E m : answers = <<m>> /\ AnswerSound(c, m)
    PROVE  NetEffect(c) /\ net'[c].up = Tail(net[c].up)
<1> DEFINE n == [Sent(net[c], answers) EXCEPT !.up = Tail(net[c].up)]
<1>1. net \in [Stream -> ChannelType] /\ net[c] \in ChannelType
  BY DEF SessionTypes
<1>2. net' = [net EXCEPT ![c] = n]
  BY Zenon DEF Consume
<1>3. Tail(net[c].up) \in Seq(RequestType)
  BY <1>1 DEF ChannelType
<1>4. CASE answers = <<>>
  <2>1. Error(TRUE) \in AnswerType
    BY DEF Error, AnswerType
  <2>2. /\ Sent(net[c], <<>>) \in ChannelType /\ Sent(net[c], <<>>).live = net[c].live
        /\ Sent(net[c], <<>>).up = net[c].up
        /\ Sent(net[c], <<>>).down = net[c].down
    BY <1>1, <2>1, SentChannel, Zenon DEF ChannelInv
  <2>3. n \in ChannelType /\ n.live = net[c].live /\ n.up = Tail(net[c].up) /\ n.down = net[c].down
    BY <1>3, <1>4, <2>2, Zenon DEF ChannelType
  <2> HIDE DEF n
  <2> QED
    BY <1>1, <1>2, <2>3, NoAnswer, Zenon DEF Shortened
<1>5. ASSUME NEW m, answers = <<m>>, AnswerSound(c, m)
      PROVE  NetEffect(c) /\ net'[c].up = Tail(net[c].up)
  <2>1. m \in AnswerType
    BY <1>5 DEF AnswerSound
  <2>2. /\ Sent(net[c], <<m>>) \in ChannelType /\ Sent(net[c], <<m>>).live = net[c].live
        /\ Sent(net[c], <<m>>).up = net[c].up
        /\ Sent(net[c], <<m>>).down = (IF net[c].live THEN Append(net[c].down, m) ELSE <<>>)
    BY <1>1, <2>1, SentChannel, Zenon
  <2>3. /\ n \in ChannelType /\ n.live = net[c].live /\ n.up = Tail(net[c].up)
        /\ n.down = (IF net[c].live THEN Append(net[c].down, m) ELSE <<>>)
    BY <1>3, <1>5, <2>2, Zenon DEF ChannelType
  <2> HIDE DEF n
  <2> QED
    BY <1>1, <1>2, <1>5, <2>3, OneAnswer, Zenon DEF Shortened
<1> QED
  BY <1>4, <1>5

LEMMA ReplyEffect ==
    ASSUME SessionTypes, NEW c \in Stream, NEW m, Reply(c, m), AnswerSound(c, m)
    PROVE  NetEffect(c) /\ net'[c].up = net[c].up
<1> DEFINE n == Sent(net[c], <<m>>)
<1>1. net \in [Stream -> ChannelType] /\ net[c] \in ChannelType /\ m \in AnswerType
  BY Zenon DEF SessionTypes, AnswerSound
<1>2. net' = [net EXCEPT ![c] = n]
  BY DEF Reply
<1>3. /\ n \in ChannelType /\ n.live = net[c].live /\ n.up = net[c].up
      /\ n.down = (IF net[c].live THEN Append(net[c].down, m) ELSE <<>>)
  BY <1>1, SentChannel, Zenon
<1> HIDE DEF n
<1> QED
  BY <1>1, <1>2, <1>3, OneAnswer, Zenon DEF Shortened

LEMMA SilentEffect ==
    ASSUME SessionTypes, ChannelInv, NEW c \in Stream,
           \/ UNCHANGED net
           \/ net[c].up # <<>> /\ \E retryable \in BOOLEAN : Remember(c, retryable)
           \/ \E retryable \in BOOLEAN : net' = [net EXCEPT ![c].retryable = retryable]
           \/ net' = [net EXCEPT ![c].up = <<>>]
    PROVE  /\ NetEffect(c)
           /\ net'[c].up = <<>> \/ net'[c].up = net[c].up \/ net'[c].up = Tail(net[c].up)
<1>1. net \in [Stream -> ChannelType] /\ net[c] \in ChannelType /\ <<>> \in Seq(RequestType)
  BY DEF SessionTypes
<1>2. PICK n : /\ net' = [net EXCEPT ![c] = n] /\ n \in ChannelType
               /\ n.live = net[c].live /\ n.down = net[c].down
               /\ Shortened(net[c].up, n.up)
  <2>1. CASE UNCHANGED net
    BY <1>1, <2>1 DEF Shortened
  <2>2. ASSUME net[c].up # <<>>, NEW retryable \in BOOLEAN, Remember(c, retryable)
        PROVE  /\ net' = [net EXCEPT ![c] = [net[c] EXCEPT !.up = Tail(net[c].up),
                                                           !.retryable = retryable]]
               /\ Tail(net[c].up) \in Seq(RequestType)
    <3>1. net[c].up \in Seq(RequestType)
      BY <1>1, Zenon DEF ChannelType
    <3>2. Tail(net[c].up) \in Seq(RequestType)
      BY <2>2, <3>1
    <3> QED
      BY <2>2, <3>2, Zenon DEF Remember
  <2>3. CASE net[c].up # <<>> /\ \E retryable \in BOOLEAN : Remember(c, retryable)
    <3>1. PICK retryable \in BOOLEAN : Remember(c, retryable)
      BY <2>3
    <3> DEFINE n == [net[c] EXCEPT !.up = Tail(net[c].up), !.retryable = retryable]
    <3>2. net' = [net EXCEPT ![c] = n] /\ Tail(net[c].up) \in Seq(RequestType)
      BY <2>2, <2>3, <3>1, Zenon
    <3>3. /\ n \in ChannelType /\ n.live = net[c].live /\ n.down = net[c].down
          /\ n.up = Tail(net[c].up)
      BY <1>1, <3>2, Zenon DEF ChannelType
    <3> HIDE DEF n
    <3> QED
      BY <2>3, <3>2, <3>3, Zenon DEF Shortened
  <2>4. CASE \E retryable \in BOOLEAN : net' = [net EXCEPT ![c].retryable = retryable]
    BY <1>1, <2>4 DEF Shortened, ChannelType
  <2>5. CASE net' = [net EXCEPT ![c].up = <<>>]
    <3> DEFINE n == [net[c] EXCEPT !.up = <<>>]
    <3>1. /\ net' = [net EXCEPT ![c] = n] /\ n \in ChannelType /\ n.live = net[c].live
          /\ n.down = net[c].down /\ n.up = <<>>
      BY <1>1, <2>5, Zenon DEF ChannelType
    <3> HIDE DEF n
    <3> QED
      BY <3>1, Zenon DEF Shortened
  <2> QED
    BY <2>1, <2>3, <2>4, <2>5, Zenon
<1> QED
  BY <1>1, <1>2, NoAnswer, Zenon DEF Shortened
=============================================================================
