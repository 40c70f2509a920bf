----------------------- MODULE TrackerProtocolProofs -----------------------
(***************************************************************************)
(* The AMQP side, for every set of connections, channels and requests: it  *)
(* keeps its state in shape, each of its steps is an operation of the      *)
(* broker, a hang-up or a stutter, and so BrokerState's theorems hold of   *)
(* the server as a whole.  TrackerInv is inductive; its part that TLC's    *)
(* type invariant lacks says that the content frames on their way, and the *)
(* messages under assembly, belong to publications that were made.         *)
(***************************************************************************)
EXTENDS TrackerProtocol, BrokerStateProofs

KnownFrame(c) == {f \in Frame : f.method = "HEADER" => f.id \in DOMAIN published[c]}

FramesOK ==
    /\ buffer \in [Conns -> Seq(Frame)]
    /\ arriving \in [Conns -> Seq(Frame)]
    /\ pending \in [Conns -> [Channels -> Seq(HeaderFrame \cup BodyFrame)]]
    /\ published \in [Conns -> Seq(Publication)]
    /\ running \in Conns \cup {Idle}
    /\ running # Idle => buffer[running] # <<>>
    /\ \A c \in Conns :
          /\ buffer[c] \in Seq(KnownFrame(c))
          /\ arriving[c] \in Seq(KnownFrame(c))
          /\ \A n \in Channels : pending[c][n] \in Seq(KnownFrame(c))

\* A channel that waits for a body has a message, of a publication of its client.
UnderWay(c, ch) ==
    ch.state = "WAITING_BODY" =>
        ch.message \in Message /\ ch.message.id \in DOMAIN published[c]

ChannelsOK ==
    /\ DOMAIN channels = Conns
    /\ \A c \in Conns : /\ IsDict(channels[c], Channels, Channel)
                        /\ \A n \in DOMAIN channels[c] : UnderWay(c, channels[c][n])

TrackerInv ==
    /\ BrokerInv
    /\ parser_state \in [Conns -> ConnectionState]
    /\ FramesOK
    /\ ChannelsOK
    /\ stored \in [Conns -> Seq(Stored)]

BrokerStep == BrokerNext \/ UNCHANGED brokerVars

-----------------------------------------------------------------------------
(* Frames *)

\* What the decoders of method.py put in a frame is what the handler of its
\* method reads.
LEMMA FrameFields ==
    ASSUME NEW f \in Frame
    PROVE  /\ f.chan # 0 => f.chan \in Channels
           /\ f.method = "START_OK" => f.user \in Users /\ f.password \in Passwords
           /\ f.method = "EXCHANGE_DECLARE" => f.exchange \in Exchanges /\ f.type \in Types
           /\ f.method = "QUEUE_DECLARE" => f.queue \in Queues
           /\ f.method = "QUEUE_BIND" => f.queue \in Queues /\ f.exchange \in Exchanges
           /\ f.method = "BASIC_CONSUME" => f.queue \in Queues /\ f.tag \in ConsumerTags
           /\ f.method = "BASIC_ACK" => f.dtag \in DeliveryTags
           /\ f.method = "BASIC_NACK" => f.dtag \in DeliveryTags /\ f.requeue \in BOOLEAN
           /\ f.method = "BASIC_PUBLISH" => f.exchange \in Exchanges
           /\ f.method = "HEADER" => f.id \in Nat
           /\ f.method = "BODY" => f.id \in Nat /\ f.part \in Nat
<1>1. CASE f \in ConnectionFrame
  BY <1>1 DEF ConnectionFrame, ProtocolHeader
<1>2. CASE f \in ChannelFrame
  BY <1>2 DEF ChannelFrame
<1>3. CASE f \in PublishFrame \cup HeaderFrame \cup BodyFrame
  BY <1>3 DEF PublishFrame, HeaderFrame, BodyFrame
<1> QED BY <1>1, <1>2, <1>3 DEF Frame

\* The frame under treatment is one of those known to the client.
LEMMA NextFrameKnown ==
    ASSUME FramesOK, NEW c \in Conns, Reading(c)
    PROVE  NextFrame(c) \in KnownFrame(c) /\ NextFrame(c) \in Frame
<1>1. buffer[c] \in Seq(KnownFrame(c)) /\ buffer[c] # <<>>
  BY DEF FramesOK, Reading
<1>2. Head(buffer[c]) \in KnownFrame(c)
  BY <1>1, HeadTailProperties
<1> QED BY <1>2 DEF NextFrame, KnownFrame

\* However an iteration ends (protocol.py:103-160), the rest of the buffer waits,
\* and the loop goes on only if there is a rest.
LEMMA FrameTaken ==
    ASSUME FramesOK, NEW c \in Conns, Reading(c), UNCHANGED client,
           \/ Continue(c)
           \/ Consume(c) /\ running' = Idle
           \/ UNCHANGED buffer /\ running' = Idle
    PROVE  FramesOK'
<1> DEFINE b == buffer[c]
<1>1. b \in Seq(Frame) /\ b \in Seq(KnownFrame(c)) /\ b # <<>>
  BY DEF FramesOK, Reading
<1>2. /\ Tail(b) \in Seq(Frame) /\ Tail(b) \in Seq(KnownFrame(c))
      /\ Len(b) # 1 => Tail(b) # <<>>
  <2>1. Tail(b) \in Seq(Frame) /\ Len(Tail(b)) = Len(b) - 1
    BY <1>1, HeadTailProperties
  <2>2. Tail(b) \in Seq(KnownFrame(c))
    BY <1>1, HeadTailProperties
  <2>3. Len(b) \in Nat /\ (Tail(b) = <<>> => Len(Tail(b)) = 0)
    BY <1>1, LenProperties, EmptySeq
  <2> QED BY <2>1, <2>2, <2>3
<1>3. /\ published' = published /\ arriving' = arriving /\ pending' = pending
      /\ \A x : KnownFrame(x)' = KnownFrame(x)
  BY DEF client, KnownFrame
<1>4. buffer' = [buffer EXCEPT ![c] = Tail(b)] \/ buffer' = buffer
  BY DEF Continue, Consume
<1>5. /\ buffer' \in [Conns -> Seq(Frame)]
      /\ \A x \in Conns : buffer'[x] \in Seq(KnownFrame(x))
  BY <1>1, <1>2, <1>4 DEF FramesOK
<1>6. /\ running' \in Conns \cup {Idle}
      /\ running' # Idle => buffer'[running'] # <<>>
  <2>1. CASE running' = Idle
    BY <2>1
  <2>2. CASE running' # Idle
    <3>1. running' = c /\ Len(b) # 1 /\ buffer' = [buffer EXCEPT ![c] = Tail(b)]
      BY <2>2 DEF Continue, Consume
    <3> QED BY <1>2, <3>1 DEF FramesOK
  <2> QED BY <2>1, <2>2
<1> QED BY <1>3, <1>5, <1>6 DEF FramesOK

-----------------------------------------------------------------------------
(* Channels *)

\* The channel of a frame, new or not (protocol.py:204-214).
LEMMA ChanTyped ==
    ASSUME FramesOK, ChannelsOK, NEW c \in Conns, Reading(c), NextFrame(c).chan # 0
    PROVE  /\ NextFrame(c).chan \in Channels
           /\ Chan(c) \in Channel /\ UnderWay(c, Chan(c))
<1>1. NextFrame(c).chan \in Channels
  BY NextFrameKnown, FrameFields
<1>2. NewChannel \in Channel /\ UnderWay(c, NewChannel)
  BY DEF NewChannel, Channel, ChannelState, UnderWay
<1> QED BY <1>1, <1>2 DEF ChannelsOK, Chan, IsDict

\* The channel of the frame is replaced by a channel in shape.
LEMMA SetChannelOK ==
    ASSUME FramesOK, ChannelsOK, NEW c \in Conns, Reading(c), NextFrame(c).chan # 0,
           NEW ch \in Channel, UnderWay(c, ch), SetChannel(c, ch), UNCHANGED published
    PROVE  ChannelsOK'
<1> DEFINE n == NextFrame(c).chan
           d == Put(channels[c], n, ch)
<1>1. n \in Channels
  BY ChanTyped
<1>2. IsDict(channels[c], Channels, Channel)
  BY DEF ChannelsOK
<1>3. /\ IsDict(d, Channels, Channel)
      /\ DOMAIN d = DOMAIN channels[c] \cup {n} /\ d[n] = ch
      /\ \A x \in DOMAIN channels[c] : x # n => d[x] = channels[c][x]
  <2> HIDE DEF n
  <2> QED BY <1>1, <1>2, PutDict
<1>4. channels' = [channels EXCEPT ![c] = d]
  BY DEF SetChannel
<1> HIDE DEF d
<1>5. \A x \in DOMAIN d : UnderWay(c, d[x])
  BY <1>3 DEF ChannelsOK
<1> HIDE DEF n
<1> QED BY <1>3, <1>4, <1>5 DEF ChannelsOK, UnderWay

LEMMA ChannelsKept ==
    ASSUME ChannelsOK, UNCHANGED <<channels, published>> PROVE ChannelsOK'
BY DEF ChannelsOK, UnderWay

\* A transport that starts closing is a hang-up of the broker.
LEMMA CloseStep ==
    ASSUME NEW c \in Conns, UNCHANGED tables, closing' \in {closing, closing \cup {c}}
    PROVE  BrokerStep
BY DEF BrokerStep, BrokerNext, Hangup, brokerVars

-----------------------------------------------------------------------------
(* The frames of channel 0 *)

TrackerOK ==
    /\ parser_state' \in [Conns -> ConnectionState]
    /\ FramesOK'
    /\ ChannelsOK'
    /\ stored' \in [Conns -> Seq(Stored)]
    /\ BrokerStep

\* The part the handlers have in common, for those that leave the channels alone.
LEMMA ConnectionFrameOK ==
    ASSUME TrackerInv, NEW c \in Conns,
           \/ UndecodableFrame(c) \/ HeartBeat(c) \/ ConnectionClose(c)
           \/ StartOk(c) \/ TuneOk(c) \/ Open(c) \/ ConnectionIgnored(c)
    PROVE  TrackerOK
<1>0. /\ FramesOK /\ ChannelsOK /\ parser_state \in [Conns -> ConnectionState]
      /\ stored \in [Conns -> Seq(Stored)]
  BY DEF TrackerInv
<1>1. CASE UndecodableFrame(c)
  <2>1. FramesOK'
    BY <1>0, <1>1, FrameTaken DEF UndecodableFrame, Raise
  <2>2. ChannelsOK'
    BY <1>0, <1>1, ChannelsKept DEF UndecodableFrame, client
  <2>3. BrokerStep
    BY <1>1, CloseStep DEF UndecodableFrame, Raise
  <2> QED BY <1>0, <1>1, <2>1, <2>2, <2>3 DEF UndecodableFrame, TrackerOK
<1>2. CASE HeartBeat(c) \/ ConnectionIgnored(c)
  <2>1. FramesOK'
    BY <1>0, <1>2, FrameTaken DEF HeartBeat, ConnectionIgnored, OnConnection
  <2>2. ChannelsOK'
    BY <1>0, <1>2, ChannelsKept DEF HeartBeat, ConnectionIgnored, client
  <2>3. BrokerStep
    BY <1>2 DEF HeartBeat, ConnectionIgnored, BrokerStep
  <2> QED BY <1>0, <1>2, <2>1, <2>2, <2>3 DEF HeartBeat, ConnectionIgnored, TrackerOK
<1>3. CASE ConnectionClose(c)
  <2>1. FramesOK'
    BY <1>0, <1>3, FrameTaken DEF ConnectionClose, Return
  <2>2. ChannelsOK'
    BY <1>0, <1>3, ChannelsKept DEF ConnectionClose, client
  <2>3. BrokerStep
    BY <1>3, CloseStep DEF ConnectionClose
  <2> QED BY <1>0, <1>3, <2>1, <2>2, <2>3 DEF ConnectionClose, TrackerOK
<1>4. CASE StartOk(c)
  <2> DEFINE f == NextFrame(c)
  <2>0. f \in Frame
    BY <1>0, <1>4, NextFrameKnown DEF StartOk, OnConnection
  <2>1. FramesOK'
    BY <1>0, <1>4, FrameTaken DEF StartOk, OnConnection, Return, Raise
  <2>2. ChannelsOK'
    BY <1>0, <1>4, ChannelsKept DEF StartOk, client
  <2>3. parser_state' \in [Conns -> ConnectionState]
    BY <1>0, <1>4 DEF StartOk, ConnectionState
  <2>4. ASSUME f.method = "START_OK", f.mechanism # "OTHER" PROVE BrokerStep
    <3>1. f.user \in Users /\ f.password \in Passwords
      BY <2>0, <2>4, FrameFields
    <3>2. check_credentials(f.user, f.password)
      BY <1>4, <2>4 DEF StartOk
    <3>3. IF Authenticated(f.user, f.password) THEN UNCHANGED closing
          ELSE closing' = closing \cup {c}
      BY <1>4, <2>4 DEF StartOk
    <3>4. CASE Authenticated(f.user, f.password)
      <4>1. Operation
        BY <3>1, <3>2 DEF Operation
      <4> QED BY <3>3, <3>4, <4>1 DEF BrokerStep, BrokerNext
    <3>5. CASE ~Authenticated(f.user, f.password)
      <4>1. Hangup(c)
        BY <3>1, <3>2, <3>3, <3>5 DEF Hangup
      <4> QED BY <4>1 DEF BrokerStep, BrokerNext
    <3> QED BY <3>4, <3>5
  <2>5. ASSUME ~ (f.method = "START_OK" /\ f.mechanism # "OTHER") PROVE BrokerStep
    <3>1. CASE f.method # "START_OK"
      BY <1>4, <3>1, CloseStep DEF StartOk, Raise
    <3>2. CASE f.method = "START_OK" /\ f.mechanism = "OTHER"
      BY <1>4, <3>2, CloseStep DEF StartOk
    <3> QED BY <2>5, <3>1, <3>2
  <2> QED BY <1>0, <1>4, <2>1, <2>2, <2>3, <2>4, <2>5 DEF StartOk, TrackerOK
<1>5. ASSUME NEW state, NEW method, NEW next \in ConnectionState,
             Handshake(c, state, method, next)
      PROVE  TrackerOK
  <2>1. FramesOK'
    BY <1>0, <1>5, FrameTaken DEF Handshake, OnConnection, Return
  <2>2. ChannelsOK'
    BY <1>0, <1>5, ChannelsKept DEF Handshake, client
  <2>3. BrokerStep
    BY <1>5, CloseStep DEF Handshake
  <2>4. parser_state' \in [Conns -> ConnectionState]
    BY <1>0, <1>5 DEF Handshake
  <2> QED BY <1>0, <1>5, <2>1, <2>2, <2>3, <2>4 DEF Handshake, TrackerOK
<1>6. CASE TuneOk(c) \/ Open(c)
  BY <1>5, <1>6 DEF TuneOk, Open, ConnectionState
<1> QED BY <1>1, <1>2, <1>3, <1>4, <1>6

-----------------------------------------------------------------------------
(* The frames of a channel *)

\* channel.open and channel.close, in any state of the channel (protocol.py:216-240).
LEMMA OpenCloseOK ==
    ASSUME TrackerInv, NEW c \in Conns,
           ChannelOpen(c) \/ ChannelNotOpen(c) \/ ChannelClose(c)
    PROVE  TrackerOK
<1>0. /\ FramesOK /\ ChannelsOK /\ parser_state \in [Conns -> ConnectionState]
      /\ stored \in [Conns -> Seq(Stored)]
  BY DEF TrackerInv
<1>1. Reading(c) /\ NextFrame(c).chan # 0
  BY DEF ChannelOpen, ChannelNotOpen, ChannelClose, OnChannel
<1>2. Chan(c) \in Channel /\ UnderWay(c, Chan(c))
  BY <1>0, <1>1, ChanTyped
<1>3. FramesOK'
  BY <1>0, <1>1, FrameTaken DEF ChannelOpen, ChannelNotOpen, ChannelClose, Raise
<1>4. /\ UNCHANGED <<tables, parser_state, stored, client>>
      /\ closing' \in {closing, closing \cup {c}}
  BY DEF ChannelOpen, ChannelNotOpen, ChannelClose, Raise
<1>5. BrokerStep
  BY <1>4, CloseStep
<1>6. UNCHANGED published
  BY <1>4 DEF client
<1>7. ASSUME ChannelOpen(c) PROVE ChannelsOK'
  <2> DEFINE ch == [Chan(c) EXCEPT !.state = "OPENED"]
  <2>1. ch \in Channel /\ UnderWay(c, ch)
    BY <1>2 DEF Channel, ChannelState, UnderWay
  <2>2. SetChannel(c, ch) \/ SetChannel(c, Chan(c))
    BY <1>7 DEF ChannelOpen
  <2> HIDE DEF ch
  <2> QED BY <1>0, <1>1, <1>2, <1>6, <2>1, <2>2, SetChannelOK
<1>8. ASSUME ChannelNotOpen(c) PROVE ChannelsOK'
  BY <1>0, <1>1, <1>2, <1>6, <1>8, SetChannelOK DEF ChannelNotOpen
<1>9. ASSUME ChannelClose(c) PROVE ChannelsOK'
  <2>1. channels' = [channels EXCEPT ![c] =
                        [n \in DOMAIN channels[c] \ {NextFrame(c).chan} |-> channels[c][n]]]
    BY <1>9 DEF ChannelClose
  <2> QED BY <1>0, <1>6, <2>1 DEF ChannelsOK, IsDict, UnderWay
<1> QED BY <1>0, <1>3, <1>4, <1>5, <1>7, <1>8, <1>9 DEF TrackerOK

\* What the methods of an opened channel have in common (protocol.py:242-348).
LEMMA OpenedOK ==
    ASSUME TrackerInv, NEW c \in Conns, NEW method, OnOpened(c, method)
    PROVE  /\ parser_state' \in [Conns -> ConnectionState]
           /\ FramesOK'
           /\ UNCHANGED channels => ChannelsOK'
           /\ stored' \in [Conns -> Seq(Stored)]
           /\ NextFrame(c) \in KnownFrame(c) /\ NextFrame(c) \in Frame
           /\ NextFrame(c).method = method
           /\ NextFrame(c).chan \in Channels
<1>0. /\ FramesOK /\ ChannelsOK /\ parser_state \in [Conns -> ConnectionState]
      /\ stored \in [Conns -> Seq(Stored)]
  BY DEF TrackerInv
<1>1. Reading(c) /\ NextFrame(c).chan # 0
  BY DEF OnOpened, OnChannel
<1>2. FramesOK'
  BY <1>0, <1>1, FrameTaken DEF OnOpened
<1>3. UNCHANGED channels => ChannelsOK'
  BY <1>0, ChannelsKept DEF OnOpened, client
<1>4. NextFrame(c).chan \in Channels
  BY <1>0, <1>1, ChanTyped
<1> QED BY <1>0, <1>1, <1>2, <1>3, <1>4, NextFrameKnown DEF OnOpened

\* Declarations and bindings: refused ones change no table and close the transport.
LEMMA DeclarationOK ==
    ASSUME TrackerInv, NEW c \in Conns,
           ExchangeDeclare(c) \/ QueueDeclare(c) \/ QueueBind(c)
    PROVE  TrackerOK
<1> DEFINE f == NextFrame(c)
<1>1. ASSUME ExchangeDeclare(c) PROVE TrackerOK
  <2>1. OnOpened(c, "EXCHANGE_DECLARE") /\ UNCHANGED channels
    BY <1>1 DEF ExchangeDeclare
  <2>2. f.exchange \in Exchanges /\ f.type \in Types
    BY <2>1, OpenedOK, FrameFields
  <2>3. ASSUME DeclaredAs(f.exchange, f.type) PROVE BrokerStep
    BY <1>1, <2>2, <2>3 DEF ExchangeDeclare, BrokerStep, BrokerNext, Operation
  <2>4. ASSUME ~DeclaredAs(f.exchange, f.type) PROVE BrokerStep
    <3>1. UNCHANGED tables /\ closing' = closing \cup {c}
      BY <1>1, <2>4 DEF ExchangeDeclare, DeclaredAs, declare_exchange, tables, routing
    <3> QED BY <3>1, CloseStep
  <2> QED BY <2>1, <2>3, <2>4, OpenedOK DEF TrackerOK
<1>2. ASSUME QueueDeclare(c) PROVE TrackerOK
  <2>1. OnOpened(c, "QUEUE_DECLARE") /\ UNCHANGED channels
    BY <1>2 DEF QueueDeclare
  <2>2. f.queue \in Queues
    BY <2>1, OpenedOK, FrameFields
  <2>3. BrokerStep
    BY <1>2, <2>2 DEF QueueDeclare, BrokerStep, BrokerNext, Operation
  <2> QED BY <2>1, <2>3, OpenedOK DEF TrackerOK
<1>3. ASSUME QueueBind(c) PROVE TrackerOK
  <2>1. OnOpened(c, "QUEUE_BIND") /\ UNCHANGED channels
    BY <1>3 DEF QueueBind
  <2>2. f.queue \in Queues /\ f.exchange \in Exchanges
    BY <2>1, OpenedOK, FrameFields
  <2>3. ASSUME Bindable(f.queue, f.exchange) PROVE BrokerStep
    BY <1>3, <2>2, <2>3 DEF QueueBind, BrokerStep, BrokerNext, Operation
  <2>4. ASSUME ~Bindable(f.queue, f.exchange) PROVE BrokerStep
    <3>1. UNCHANGED tables /\ closing' = closing \cup {c}
      BY <1>3, <2>4 DEF QueueBind, bind_queue, tables, routing
    <3> QED BY <3>1, CloseStep
  <2> QED BY <2>1, <2>3, <2>4, OpenedOK DEF TrackerOK
<1> QED BY <1>1, <1>2, <1>3

\* Registrations and settlements.
LEMMA WorkerMethodOK ==
    ASSUME TrackerInv, NEW c \in Conns, BasicConsume(c) \/ BasicAck(c) \/ BasicNack(c)
    PROVE  TrackerOK
<1> DEFINE f == NextFrame(c)
<1>1. ASSUME BasicConsume(c) PROVE TrackerOK
  <2>1. OnOpened(c, "BASIC_CONSUME") /\ UNCHANGED channels
    BY <1>1 DEF BasicConsume
  <2>2. f.queue \in Queues /\ f.tag \in ConsumerTags /\ f.chan \in Channels
    BY <2>1, OpenedOK, FrameFields
  <2>3. BrokerStep
    BY <1>1, <2>2 DEF BasicConsume, BrokerStep, BrokerNext, Operation
  <2> QED BY <2>1, <2>3, OpenedOK DEF TrackerOK
<1>2. ASSUME BasicAck(c) PROVE TrackerOK
  <2>1. OnOpened(c, "BASIC_ACK") /\ UNCHANGED channels
    BY <1>2 DEF BasicAck
  <2>2. f.dtag \in DeliveryTags
    BY <2>1, OpenedOK, FrameFields
  <2>3. BrokerStep
    BY <1>2, <2>2 DEF BasicAck, BrokerStep, BrokerNext, Operation
  <2> QED BY <2>1, <2>3, OpenedOK DEF TrackerOK
<1>3. ASSUME BasicNack(c) PROVE TrackerOK
  <2>1. OnOpened(c, "BASIC_NACK") /\ UNCHANGED channels
    BY <1>3 DEF BasicNack
  <2>2. f.dtag \in DeliveryTags /\ f.requeue \in BOOLEAN
    BY <2>1, OpenedOK, FrameFields
  <2>3. BrokerStep
    BY <1>3, <2>2 DEF BasicNack, BrokerStep, BrokerNext, Operation
  <2> QED BY <2>1, <2>3, OpenedOK DEF TrackerOK
<1> QED BY <1>1, <1>2, <1>3

\* A publication and its header change the channel only.
LEMMA PublishHeaderOK ==
    ASSUME TrackerInv, NEW c \in Conns, BasicPublish(c) \/ ContentHeader(c) \/ NoEffect(c)
    PROVE  TrackerOK
<1> DEFINE f == NextFrame(c)
<1>0. /\ FramesOK /\ ChannelsOK /\ parser_state \in [Conns -> ConnectionState]
      /\ stored \in [Conns -> Seq(Stored)]
  BY DEF TrackerInv
<1>1. /\ Reading(c) /\ f.chan # 0 /\ Continue(c)
      /\ UNCHANGED <<brokerVars, parser_state, stored, client>>
  BY DEF BasicPublish, ContentHeader, NoEffect, OnOpened, OnChannel
<1>2. /\ Chan(c) \in Channel /\ UnderWay(c, Chan(c))
      /\ f \in Frame /\ f \in KnownFrame(c)
  BY <1>0, <1>1, ChanTyped, NextFrameKnown
<1>3. FramesOK'
  BY <1>0, <1>1, FrameTaken
<1>4. BrokerStep /\ UNCHANGED published
  BY <1>1 DEF BrokerStep, client
<1>5. ASSUME BasicPublish(c) PROVE ChannelsOK'
  <2> DEFINE ch == [Chan(c) EXCEPT !.state = "WAITING_HEADER", !.exchange = f.exchange]
  <2>1. f.exchange \in Exchanges
    BY <1>2, <1>5, FrameFields DEF BasicPublish, OnOpened
  <2>2. ch \in Channel /\ UnderWay(c, ch)
    BY <1>2, <2>1 DEF Channel, ChannelState, UnderWay
  <2>3. SetChannel(c, ch)
    BY <1>5 DEF BasicPublish
  <2> HIDE DEF ch
  <2> QED BY <1>0, <1>1, <1>4, <2>2, <2>3, SetChannelOK
<1>6. ASSUME ContentHeader(c) PROVE ChannelsOK'
  <2> DEFINE msg == [id |-> f.id, content |-> <<>>]
             ch == [Chan(c) EXCEPT !.state = "WAITING_BODY", !.message = msg]
  <2>1. f.id \in Nat /\ f.id \in DOMAIN published[c]
    BY <1>2, <1>6, FrameFields DEF ContentHeader, KnownFrame
  <2>2. msg \in Message /\ msg.id \in DOMAIN published[c]
    BY <2>1, EmptySeq DEF Message
  <2>3. SetChannel(c, ch)
    BY <1>6 DEF ContentHeader
  <2> HIDE DEF msg
  <2>4. ch \in Channel /\ UnderWay(c, ch)
    BY <1>2, <2>2 DEF Channel, ChannelState, UnderWay
  <2> HIDE DEF ch
  <2> QED BY <1>0, <1>1, <1>4, <2>3, <2>4, SetChannelOK
<1>7. ASSUME NoEffect(c) PROVE ChannelsOK'
  BY <1>0, <1>4, <1>7, ChannelsKept DEF NoEffect
<1> QED BY <1>0, <1>1, <1>3, <1>4, <1>5, <1>6, <1>7 DEF TrackerOK

\* A body frame (protocol.py:357-377): the message it completes is a message that
\* was published, so storing it is an operation of the broker.
LEMMA ContentBodyOK ==
    ASSUME TrackerInv, NEW c \in Conns, ContentBody(c) PROVE TrackerOK
<1> DEFINE f     == NextFrame(c)
           ch    == Chan(c)
           whole == [ch.message EXCEPT !.content = add_content(c, <<f.id, f.part>>)]
           msg   == published[c][whole.id].msg
<1>0. /\ FramesOK /\ ChannelsOK /\ parser_state \in [Conns -> ConnectionState]
      /\ stored \in [Conns -> Seq(Stored)]
  BY DEF TrackerInv
<1>1. /\ Reading(c) /\ f.chan # 0 /\ f.method = "BODY" /\ ch.state = "WAITING_BODY"
      /\ Continue(c) /\ UNCHANGED <<parser_state, client>>
  BY DEF ContentBody, OnChannel
<1>2. /\ ch \in Channel /\ UnderWay(c, ch) /\ f.chan \in Channels
      /\ f.id \in Nat /\ f.part \in Nat
  BY <1>0, <1>1, ChanTyped, NextFrameKnown, FrameFields
<1>3. FramesOK' /\ UNCHANGED published
  BY <1>0, <1>1, FrameTaken DEF client
<1>4. ch.message \in Message /\ ch.message.id \in DOMAIN published[c]
  BY <1>1, <1>2 DEF UnderWay
<1>5. add_content(c, <<f.id, f.part>>) \in Seq(Nat \X Nat)
  BY <1>2, <1>4 DEF Message, add_content
<1>6. whole \in Message /\ whole.id = ch.message.id
  BY <1>4, <1>5 DEF Message
<1>7. msg \in Messages
  <2>1. published[c] \in Seq(Publication) /\ whole.id \in DOMAIN published[c]
    BY <1>0, <1>4, <1>6 DEF FramesOK
  <2>2. published[c][whole.id] \in Publication
    BY <2>1, LenProperties, ElementOfSeq
  <2> QED BY <2>2 DEF Publication
<1>8. IF ~is_complete(msg, whole.content)
      THEN /\ SetChannel(c, [ch EXCEPT !.message = whole])
           /\ UNCHANGED <<brokerVars, stored>>
      ELSE /\ store_message(ch.exchange, msg)
           /\ IF ch.exchange \in DOMAIN exchanges
              THEN /\ SetChannel(c, [ch EXCEPT !.state = "OPENED", !.message = None])
                   /\ stored' = [stored EXCEPT ![c] = Append(@,
                          [chan |-> f.chan, exchange |-> ch.exchange,
                           id |-> whole.id, content |-> whole.content])]
                   /\ UNCHANGED closing
              ELSE /\ SetChannel(c, [ch EXCEPT !.message = whole])
                   /\ closing' = closing \cup {c}
                   /\ UNCHANGED stored
  BY DEF ContentBody
<1> HIDE DEF whole, msg
<1>9. ASSUME SetChannel(c, [ch EXCEPT !.message = whole]) PROVE ChannelsOK'
  <2> DEFINE new == [ch EXCEPT !.message = whole]
  <2>1. new \in Channel /\ UnderWay(c, new)
    BY <1>2, <1>4, <1>6 DEF Channel, UnderWay
  <2> HIDE DEF new
  <2> QED BY <1>0, <1>1, <1>3, <1>9, <2>1, SetChannelOK DEF new
<1>10. CASE ~is_complete(msg, whole.content)
  BY <1>0, <1>1, <1>3, <1>8, <1>9, <1>10 DEF TrackerOK, BrokerStep
<1>11. CASE is_complete(msg, whole.content) /\ ch.exchange \in DOMAIN exchanges
  <2> DEFINE new == [ch EXCEPT !.state = "OPENED", !.message = None]
             r == [chan |-> f.chan, exchange |-> ch.exchange,
                   id |-> whole.id, content |-> whole.content]
  <2>1. /\ store_message(ch.exchange, msg) /\ SetChannel(c, new) /\ UNCHANGED closing
        /\ stored' = [stored EXCEPT ![c] = Append(@, r)]
    BY <1>8, <1>11
  <2>2. ch.exchange \in Exchanges
    BY <1>11 DEF TrackerInv, BrokerInv, BrokerTypeOK, IsDict
  <2>3. new \in Channel /\ UnderWay(c, new)
    BY <1>2 DEF Channel, ChannelState, UnderWay
  <2>4. r \in Stored
    BY <1>2, <1>6, <2>2 DEF Stored, Message
  <2>5. BrokerStep
    BY <1>7, <2>1, <2>2 DEF BrokerStep, BrokerNext, Operation
  <2> HIDE DEF new, r
  <2>6. ChannelsOK'
    BY <1>0, <1>1, <1>3, <2>1, <2>3, SetChannelOK
  <2>7. stored' \in [Conns -> Seq(Stored)]
    <3>1. Append(stored[c], r) \in Seq(Stored)
      BY <1>0, <2>4
    <3> QED BY <1>0, <2>1, <3>1
  <2> QED BY <1>0, <1>1, <1>3, <2>5, <2>6, <2>7 DEF TrackerOK
<1>12. CASE is_complete(msg, whole.content) /\ ch.exchange \notin DOMAIN exchanges
  <2>1. /\ UNCHANGED tables /\ closing' = closing \cup {c} /\ UNCHANGED stored
        /\ SetChannel(c, [ch EXCEPT !.message = whole])
    BY <1>8, <1>12 DEF store_message, tables, routing
  <2> QED BY <1>0, <1>1, <1>3, <1>9, <2>1, CloseStep DEF TrackerOK
<1> QED BY <1>10, <1>11, <1>12

-----------------------------------------------------------------------------
(* The clients, the start of data_received, the HTTP side *)

\* What a client sends is a frame of a publication it has recorded, or no content.
LEMMA ContentTyped ==
    ASSUME NEW n \in Channels, NEW id \in Nat, NEW m \in Messages
    PROVE  /\ Content(n, id, m) \in Seq(HeaderFrame \cup BodyFrame)
           /\ \A S : (\A f \in HeaderFrame \cup BodyFrame : f.id = id => f \in S)
                        => Content(n, id, m) \in Seq(S)
<1> DEFINE h == [method |-> "HEADER", chan |-> n, id |-> id]
           b(k) == [method |-> "BODY", chan |-> n, id |-> id, part |-> k]
           body == [k \in 1 .. BodySize[m] |-> b(k)]
           T == {f \in HeaderFrame \cup BodyFrame : f.id = id}
<1>1. BodySize[m] \in Nat
  BY TrackerAssumption
<1>2. h \in T /\ \A k \in 1 .. BodySize[m] : b(k) \in T
  BY <1>1 DEF HeaderFrame, BodyFrame
<1>3. body \in Seq(T)
  <2> HIDE DEF T, b
  <2>1. body \in [1 .. BodySize[m] -> T]
    BY <1>2
  <2> QED BY <1>1, <2>1, SeqDef
<1>4. <<h>> \in Seq(T)
  BY <1>2
<1>5. Content(n, id, m) \in Seq(T)
  <2>1. Content(n, id, m) = <<h>> \o body
    BY DEF Content
  <2> HIDE DEF T, h, body
  <2> QED BY <1>3, <1>4, <2>1, ConcatProperties
<1>6. \A S : T \subseteq S => Content(n, id, m) \in Seq(S)
  BY <1>5, SeqMonotonic
<1>7. T \subseteq HeaderFrame \cup BodyFrame
  OBVIOUS
<1> QED BY <1>6, <1>7

\* The parts of the state a client does not touch.
LEMMA ClientStep ==
    ASSUME TrackerInv, FramesOK',
           UNCHANGED <<brokerVars, parser_state, channels, stored>>,
           \A c \in Conns : DOMAIN published[c] \subseteq DOMAIN published'[c]
    PROVE  TrackerOK
<1>1. ChannelsOK'
  BY DEF TrackerInv, ChannelsOK, UnderWay
<1> QED BY <1>1 DEF TrackerInv, TrackerOK, BrokerStep

\* The clients (SendRequest, SendPublish, SendContent).
LEMMA ClientOK ==
    ASSUME TrackerInv, NEW c \in Conns, SendRequest(c) \/ SendPublish(c) \/ SendContent(c)
    PROVE  TrackerOK
<1>0. FramesOK /\ running = Idle
  BY DEF TrackerInv, SendRequest, SendPublish, SendContent, Connected
<1>1. /\ buffer \in [Conns -> Seq(Frame)] /\ arriving \in [Conns -> Seq(Frame)]
      /\ pending \in [Conns -> [Channels -> Seq(HeaderFrame \cup BodyFrame)]]
      /\ published \in [Conns -> Seq(Publication)]
      /\ arriving[c] \in Seq(Frame) /\ arriving[c] \in Seq(KnownFrame(c))
  BY <1>0 DEF FramesOK
<1>2. ASSUME SendRequest(c) PROVE TrackerOK
  <2>1. PICK f \in Requests : arriving' = [arriving EXCEPT ![c] = Append(@, f)]
    BY <1>2 DEF SendRequest, Send
  <2>2. f \in Frame /\ f \in KnownFrame(c)
    <3>1. f \in ConnectionFrame \cup ChannelFrame
      BY TrackerAssumption
    <3>2. f.method # "HEADER"
      BY <3>1 DEF ConnectionFrame, ChannelFrame, ProtocolHeader
    <3> QED BY <3>1, <3>2 DEF Frame, KnownFrame
  <2>3. UNCHANGED <<buffer, running, pending, published>>
    BY <1>2 DEF SendRequest
  <2>4. \A x \in Conns : KnownFrame(x)' = KnownFrame(x)
    BY <2>3 DEF KnownFrame
  <2>5. /\ Append(arriving[c], f) \in Seq(Frame)
        /\ Append(arriving[c], f) \in Seq(KnownFrame(c))
    BY <1>1, <2>2
  <2>6. FramesOK'
    BY <1>0, <2>1, <2>3, <2>4, <2>5 DEF FramesOK
  <2> QED BY <1>2, <2>3, <2>6, ClientStep DEF SendRequest
<1>3. ASSUME SendPublish(c) PROVE TrackerOK
  <2> DEFINE id == Len(published[c]) + 1
  <2>1. PICK n \in Channels, e \in Exchanges, m \in Messages :
            /\ published' = [published EXCEPT ![c] =
                                 Append(@, [chan |-> n, exchange |-> e, msg |-> m])]
            /\ pending' = [pending EXCEPT ![c][n] = Content(n, id, m)]
            /\ arriving' = [arriving EXCEPT ![c] = Append(@,
                   [method |-> "BASIC_PUBLISH", chan |-> n, exchange |-> e, id |-> id])]
    BY <1>3 DEF SendPublish, Send
  <2> DEFINE p == [chan |-> n, exchange |-> e, msg |-> m]
             f == [method |-> "BASIC_PUBLISH", chan |-> n, exchange |-> e, id |-> id]
  <2>2. published[c] \in Seq(Publication) /\ id \in Nat
    <3>1. published[c] \in Seq(Publication)
      BY <1>1
    <3>2. Len(published[c]) \in Nat
      BY <3>1, LenProperties
    <3> QED BY <3>1, <3>2
  <2>3. p \in Publication /\ f \in Frame /\ f.method # "HEADER"
    BY <2>2 DEF Publication, Frame, PublishFrame
  <2>4. /\ published' \in [Conns -> Seq(Publication)]
        /\ published'[c] = Append(published[c], p)
        /\ \A x \in Conns : x # c => published'[x] = published[x]
    <3>1. published' = [published EXCEPT ![c] = Append(published[c], p)]
      BY <2>1
    <3> HIDE DEF p
    <3>2. Append(published[c], p) \in Seq(Publication)
      BY <2>2, <2>3
    <3> QED BY <1>1, <3>1, <3>2
  <2>5. id \in DOMAIN published'[c] /\ DOMAIN published[c] \subseteq DOMAIN published'[c]
    <3> HIDE DEF p
    <3>1. DOMAIN published[c] = 1 .. Len(published[c]) /\ Len(published[c]) \in Nat
      BY <2>2, LenProperties
    <3>2. DOMAIN Append(published[c], p) = 1 .. Len(published[c]) + 1
      BY <2>2, <2>3
    <3> QED BY <2>4, <3>1, <3>2
  <2>6. \A x \in Conns : DOMAIN published[x] \subseteq DOMAIN published'[x]
    BY <2>4, <2>5
  <2>7. \A x \in Conns : KnownFrame(x) \subseteq KnownFrame(x)'
    BY <2>6 DEF KnownFrame
  <2>8. UNCHANGED <<buffer, running>>
    BY <1>3 DEF SendPublish
  <2> DEFINE K == KnownFrame(c)'
  <2>9. /\ Content(n, id, m) \in Seq(HeaderFrame \cup BodyFrame)
        /\ Content(n, id, m) \in Seq(K)
    <3>1. \A g \in HeaderFrame \cup BodyFrame : g.id = id => g \in K
      BY <2>5 DEF KnownFrame, Frame
    <3> HIDE DEF id, K
    <3> QED BY <2>2, <3>1, ContentTyped
  <2>10. /\ Append(arriving[c], f) \in Seq(Frame) /\ Append(arriving[c], f) \in Seq(K)
    <3>1. f \in K
      BY <2>3 DEF KnownFrame
    <3>2. arriving[c] \in Seq(K)
      <4> HIDE DEF K
      <4>1. KnownFrame(c) \subseteq K
        BY <2>7 DEF K
      <4> QED BY <1>1, <4>1, SeqMonotonic
    <3> HIDE DEF f, K
    <3> QED BY <1>1, <2>3, <3>1, <3>2
  <2>11. \A x \in Conns : \A s \in Seq(KnownFrame(x)) : s \in Seq(KnownFrame(x)')
    BY <2>7, SeqMonotonic
  <2> HIDE DEF f, id, p
  <2>12. /\ arriving' \in [Conns -> Seq(Frame)]
         /\ \A x \in Conns : arriving'[x] \in Seq(KnownFrame(x)')
    <3>1. arriving' = [arriving EXCEPT ![c] = Append(arriving[c], f)]
      BY <2>1 DEF f
    <3>2. \A x \in Conns : arriving[x] \in Seq(KnownFrame(x)')
      BY <1>0, <2>11 DEF FramesOK
    <3> QED BY <1>1, <2>10, <3>1, <3>2
  <2>13. /\ pending' \in [Conns -> [Channels -> Seq(HeaderFrame \cup BodyFrame)]]
         /\ \A x \in Conns : \A y \in Channels : pending'[x][y] \in Seq(KnownFrame(x)')
    <3>1. \A x \in Conns : \A y \in Channels : pending[x][y] \in Seq(KnownFrame(x)')
      BY <1>0, <2>11 DEF FramesOK
    <3> QED BY <1>1, <2>1, <2>9, <3>1
  <2>14. \A x \in Conns : buffer'[x] \in Seq(KnownFrame(x)')
    BY <1>0, <2>8, <2>11 DEF FramesOK
  <2>15. FramesOK'
    BY <1>0, <1>1, <2>4, <2>8, <2>12, <2>13, <2>14 DEF FramesOK
  <2> QED BY <1>3, <2>6, <2>15, ClientStep DEF SendPublish
<1>4. ASSUME SendContent(c) PROVE TrackerOK
  <2>1. PICK n \in Channels :
            /\ pending[c][n] # <<>>
            /\ arriving' = [arriving EXCEPT ![c] = Append(@, Head(pending[c][n]))]
            /\ pending' = [pending EXCEPT ![c][n] = Tail(@)]
    BY <1>4 DEF SendContent, Send
  <2> DEFINE s == pending[c][n]
  <2>2. s \in Seq(HeaderFrame \cup BodyFrame) /\ s \in Seq(KnownFrame(c)) /\ s # <<>>
    BY <1>0, <1>1, <2>1 DEF FramesOK
  <2>3. /\ Head(s) \in KnownFrame(c) /\ Tail(s) \in Seq(KnownFrame(c))
        /\ Tail(s) \in Seq(HeaderFrame \cup BodyFrame)
    BY <2>2, HeadTailProperties
  <2>4. Head(s) \in Frame
    BY <2>3 DEF KnownFrame
  <2>5. UNCHANGED <<buffer, running, published>>
    BY <1>4 DEF SendContent
  <2>6. \A x \in Conns : KnownFrame(x)' = KnownFrame(x)
    BY <2>5 DEF KnownFrame
  <2>7. /\ Append(arriving[c], Head(s)) \in Seq(Frame)
        /\ Append(arriving[c], Head(s)) \in Seq(KnownFrame(c))
    BY <1>1, <2>3, <2>4
  <2>8. /\ arriving' \in [Conns -> Seq(Frame)]
        /\ \A x \in Conns : arriving'[x] \in Seq(KnownFrame(x))
    BY <1>0, <1>1, <2>1, <2>7 DEF FramesOK
  <2>9. /\ pending' \in [Conns -> [Channels -> Seq(HeaderFrame \cup BodyFrame)]]
        /\ \A x \in Conns : \A y \in Channels : pending'[x][y] \in Seq(KnownFrame(x))
    BY <1>0, <1>1, <2>1, <2>3 DEF FramesOK
  <2>10. FramesOK'
    BY <1>0, <2>5, <2>6, <2>8, <2>9 DEF FramesOK
  <2> QED BY <1>4, <2>5, <2>10, ClientStep DEF SendContent
<1> QED BY <1>2, <1>3, <1>4

\* data_received takes what has arrived (protocol.py:86-103).
LEMMA DataReceivedOK ==
    ASSUME TrackerInv, NEW c \in Conns, data_received(c) PROVE TrackerOK
<1>0. /\ FramesOK /\ ChannelsOK /\ parser_state \in [Conns -> ConnectionState]
      /\ running = Idle /\ arriving[c] # <<>>
  BY DEF TrackerInv, data_received, Connected
<1>1. /\ buffer \in [Conns -> Seq(Frame)] /\ arriving \in [Conns -> Seq(Frame)]
      /\ arriving[c] \in Seq(Frame) /\ arriving[c] \in Seq(KnownFrame(c))
      /\ buffer[c] \in Seq(Frame) /\ buffer[c] \in Seq(KnownFrame(c))
  BY <1>0 DEF FramesOK
<1>2. /\ arriving' = [arriving EXCEPT ![c] = <<>>]
      /\ UNCHANGED <<tables, channels, stored, pending, published>>
  BY DEF data_received
<1>3. \A x \in Conns : KnownFrame(x)' = KnownFrame(x)
  BY <1>2 DEF KnownFrame
<1>4. /\ arriving' \in [Conns -> Seq(Frame)]
      /\ \A x \in Conns : arriving'[x] \in Seq(KnownFrame(x))
  BY <1>0, <1>1, <1>2, EmptySeq DEF FramesOK
<1>5. ChannelsOK'
  BY <1>0, <1>2, ChannelsKept
<1>6. CASE check_protocol_header(c)
  <2>1. FramesOK'
    BY <1>0, <1>2, <1>3, <1>4, <1>6 DEF check_protocol_header, FramesOK
  <2>2. BrokerStep
    BY <1>2, <1>6, CloseStep DEF check_protocol_header
  <2>3. parser_state' \in [Conns -> ConnectionState]
    BY <1>0, <1>6 DEF check_protocol_header, ConnectionState
  <2> QED BY <1>2, <1>5, <2>1, <2>2, <2>3 DEF TrackerInv, TrackerOK
<1>7. CASE /\ buffer' = [buffer EXCEPT ![c] = @ \o arriving[c]]
           /\ running' = c
           /\ UNCHANGED <<parser_state, closing>>
  <2> DEFINE b == buffer[c] \o arriving[c]
  <2>1. b \in Seq(Frame) /\ b \in Seq(KnownFrame(c)) /\ b # <<>>
    <3>1. b \in Seq(Frame) /\ b # <<>>
      BY <1>0, <1>1, ConcatProperties, ConcatEqualIffEmpty
    <3>2. b \in Seq(KnownFrame(c))
      BY <1>1, ConcatProperties
    <3> QED BY <3>1, <3>2
  <2>2. buffer' = [buffer EXCEPT ![c] = b]
    BY <1>7
  <2> HIDE DEF b
  <2>3. /\ buffer' \in [Conns -> Seq(Frame)] /\ buffer'[c] # <<>>
        /\ \A x \in Conns : buffer'[x] \in Seq(KnownFrame(x))
    BY <1>0, <1>1, <2>1, <2>2 DEF FramesOK
  <2>4. FramesOK'
    BY <1>0, <1>2, <1>3, <1>4, <1>7, <2>3 DEF FramesOK
  <2>5. BrokerStep
    BY <1>2, <1>7, CloseStep
  <2> QED BY <1>0, <1>2, <1>5, <1>7, <2>4, <2>5 DEF TrackerInv, TrackerOK
<1> QED BY <1>6, <1>7 DEF data_received

\* A step that leaves the connections' own state alone.
LEMMA TrackerUntouched ==
    ASSUME TrackerInv, UNCHANGED trackerVars, BrokerStep PROVE TrackerOK
<1>1. UNCHANGED <<parser_state, buffer, channels, running, stored, arriving, pending,
                  published>>
  BY DEF trackerVars, client
<1>2. FramesOK'
  BY <1>1 DEF TrackerInv, FramesOK, KnownFrame
<1>3. ChannelsOK'
  BY <1>1 DEF TrackerInv, ChannelsOK, UnderWay
<1> QED BY <1>1, <1>2, <1>3 DEF TrackerInv, TrackerOK

\* The operations of the HTTP side and the end of a connection.
LEMMA OutsideOK ==
    ASSUME TrackerInv, Backdoor \/ \E c \in Conns : connection_lost(c) PROVE TrackerOK
<1>1. CASE Backdoor
  <2>1. Operation
    BY <1>1 DEF Backdoor, Operation
  <2> QED BY <1>1, <2>1, TrackerUntouched DEF Backdoor, BrokerStep, BrokerNext
<1>2. CASE \E c \in Conns : connection_lost(c)
  BY <1>2, CloseStep, TrackerUntouched DEF connection_lost
<1> QED BY <1>1, <1>2

-----------------------------------------------------------------------------
(* The server implements the broker, in shape *)

\* Every step of the server, with what it does to the tables.
LEMMA NextOK == TrackerInv /\ [Next]_vars => TrackerOK
<1> SUFFICES ASSUME TrackerInv, [Next]_vars PROVE TrackerOK
  OBVIOUS
<1>1. CASE UNCHANGED vars
  BY <1>1, TrackerUntouched DEF vars, BrokerStep
<1>2. ASSUME NEW c \in Conns, TreatFrame(c) PROVE TrackerOK
  BY <1>2, ConnectionFrameOK, OpenCloseOK, DeclarationOK, WorkerMethodOK,
     PublishHeaderOK, ContentBodyOK DEF TreatFrame
<1> QED BY <1>1, <1>2, ClientOK, DataReceivedOK, OutsideOK DEF Next

\* The state of new connections (protocol.py:56-67).
LEMMA TrackerInit == Init => TrackerInv
<1> SUFFICES ASSUME Init PROVE TrackerInv
  OBVIOUS
<1>1. BrokerInv
  BY InitInv DEF Init
<1>2. parser_state \in [Conns -> ConnectionState] /\ stored \in [Conns -> Seq(Stored)]
  BY EmptySeq DEF Init, ConnectionState
<1>3. FramesOK
  <2>1. /\ buffer \in [Conns -> Seq(Frame)] /\ arriving \in [Conns -> Seq(Frame)]
        /\ pending \in [Conns -> [Channels -> Seq(HeaderFrame \cup BodyFrame)]]
        /\ published \in [Conns -> Seq(Publication)]
    BY EmptySeq DEF Init
  <2>2. \A c \in Conns : /\ buffer[c] \in Seq(KnownFrame(c))
                         /\ arriving[c] \in Seq(KnownFrame(c))
                         /\ \A n \in Channels : pending[c][n] \in Seq(KnownFrame(c))
    BY EmptySeq DEF Init
  <2> QED BY <2>1, <2>2 DEF FramesOK, Init
<1>4. ChannelsOK
  BY DEF Init, ChannelsOK, EmptyDict, IsDict
<1> QED BY <1>1, <1>2, <1>3, <1>4 DEF TrackerInv

LEMMA TrackerNext == TrackerInv /\ [Next]_vars => TrackerInv'
<1> SUFFICES ASSUME TrackerInv, [Next]_vars PROVE TrackerInv'
  OBVIOUS
<1>1. TrackerOK
  BY NextOK
<1>2. BrokerInv'
  BY <1>1, NextInv DEF TrackerInv, TrackerOK, BrokerStep
<1> QED BY <1>1, <1>2 DEF TrackerInv, TrackerOK

\* TrackerInv holds in every reachable state, for all values of the constants.
THEOREM TrackerInvariant == Spec => []TrackerInv
BY TrackerInit, TrackerNext, PTL DEF Spec

\* The state of the connections keeps the shape the handlers assume
\* (protocol.py:56-67), and a loop under way has a frame to treat.
THEOREM TrackerTypeCorrect == Spec => []TrackerTypeOK
<1>1. TrackerInv => TrackerTypeOK
  BY DEF TrackerInv, BrokerInv, FramesOK, ChannelsOK, TrackerTypeOK
<1> QED BY <1>1, TrackerInvariant, PTL

\* Whatever frames arrive, in whatever segments and states of the handshake, each
\* step of the server is one operation of State, a hang-up, or none of its tables'.
THEOREM ServerImplementsBroker == Spec => BrokerSpec
<1>1. Init => BrokerInit
  BY DEF Init
<1>2. TrackerInv /\ [Next]_vars => [BrokerNext]_brokerVars
  BY NextOK DEF TrackerOK, BrokerStep
<1> QED BY <1>1, <1>2, TrackerInvariant, PTL DEF Spec, BrokerSpec

-----------------------------------------------------------------------------
(* Opened channels, and the consumers that rely on them *)

Opened(c) == {n \in DOMAIN channels[c] : channels[c][n].state # "WAITING_OPEN"}

\* A channel is opened under a number that fits a byte, and stops being opened
\* only with its transport.
OpenedOnlyEnds ==
    \A c \in Conns :
        /\ \A n \in Opened(c)' : n \in Opened(c) \/ n <= MaxChannel
        /\ \A n \in Opened(c) : n \in Opened(c)' \/ c \in closing'

LEMMA SetOpened ==
    ASSUME ChannelsOK, NEW c \in Conns, NEW ch, SetChannel(c, ch),
           ch.state = "WAITING_OPEN" => Chan(c).state = "WAITING_OPEN",
           ch.state # "WAITING_OPEN" => \/ Chan(c).state # "WAITING_OPEN"
                                        \/ NextFrame(c).chan <= MaxChannel
    PROVE  OpenedOnlyEnds
<1> DEFINE n == NextFrame(c).chan
<1>1. /\ channels'[c] = Put(channels[c], n, ch)
      /\ \A x \in Conns : x # c => channels'[x] = channels[x]
  BY DEF ChannelsOK, SetChannel
<1>2. /\ DOMAIN channels'[c] = DOMAIN channels[c] \cup {n}
      /\ channels'[c][n] = ch
      /\ \A x \in DOMAIN channels[c] : x # n => channels'[c][x] = channels[c][x]
  BY <1>1 DEF Put
<1>3. Chan(c).state # "WAITING_OPEN" <=> n \in Opened(c)
  BY DEF Chan, NewChannel, Opened
<1> HIDE DEF n
<1>4. \A x \in Opened(c)' : x \in Opened(c) \/ x <= MaxChannel
  BY <1>2, <1>3 DEF Opened, n
<1>5. \A x \in Opened(c) : x \in Opened(c)'
  BY <1>2, <1>3 DEF Opened
<1> QED BY <1>1, <1>4, <1>5 DEF OpenedOnlyEnds, Opened

\* The life of channels under every step (protocol.py:216-240, 306-377).
LEMMA OpenedLife ==
    ASSUME TrackerInv, [Next]_vars PROVE OpenedOnlyEnds /\ closing \subseteq closing'
<1>0. ChannelsOK
  BY DEF TrackerInv
<1>1. CASE UNCHANGED <<channels, closing>>
  BY <1>1 DEF OpenedOnlyEnds, Opened
<1>2. CASE UNCHANGED channels /\ closing \subseteq closing'
  BY <1>2 DEF OpenedOnlyEnds, Opened
<1>3. ASSUME NEW c \in Conns, TreatFrame(c)
      PROVE  OpenedOnlyEnds /\ closing \subseteq closing'
  <2>1. CASE UndecodableFrame(c) \/ HeartBeat(c) \/ ConnectionClose(c) \/ StartOk(c)
             \/ ConnectionIgnored(c)
    BY <1>2, <2>1 DEF UndecodableFrame, HeartBeat, ConnectionClose, StartOk,
                      ConnectionIgnored, Raise, brokerVars
  <2>2. CASE TuneOk(c) \/ Open(c)
    BY <1>2, <2>2 DEF TuneOk, Open, Handshake
  <2>3. CASE ExchangeDeclare(c) \/ QueueDeclare(c) \/ QueueBind(c) \/ BasicConsume(c)
             \/ BasicAck(c) \/ BasicNack(c)
    BY <1>2, <2>3 DEF ExchangeDeclare, QueueDeclare, QueueBind, BasicConsume, BasicAck,
                      BasicNack
  <2>4. CASE NoEffect(c)
    BY <1>1, <2>4 DEF NoEffect, brokerVars
  <2>5. CASE ChannelOpen(c)
    <3>0. closing \subseteq closing'
      BY <2>5 DEF ChannelOpen, Raise
    <3>1. CASE NextFrame(c).chan > MaxChannel
      BY <1>0, <2>5, <3>0, <3>1, SetOpened DEF ChannelOpen
    <3>2. CASE ~ (NextFrame(c).chan > MaxChannel)
      <4> DEFINE ch == [Chan(c) EXCEPT !.state = "OPENED"]
      <4>1. SetChannel(c, ch)
        BY <2>5, <3>2 DEF ChannelOpen
      <4>2. Chan(c) \in Channel /\ NextFrame(c).chan \in Nat
        BY <2>5, ChanTyped, TrackerAssumption DEF TrackerInv, ChannelOpen, OnChannel
      <4>3. ch.state = "OPENED" /\ NextFrame(c).chan <= MaxChannel
        BY <3>2, <4>2 DEF Channel, MaxChannel
      <4> HIDE DEF ch
      <4> QED BY <1>0, <3>0, <4>1, <4>3, SetOpened
    <3> QED BY <3>1, <3>2
  <2>6. CASE ChannelNotOpen(c)
    BY <1>0, <2>6, SetOpened DEF ChannelNotOpen
  <2>7. CASE ChannelClose(c)
    <3>1. /\ channels' = [channels EXCEPT ![c] =
                 [n \in DOMAIN channels[c] \ {NextFrame(c).chan} |-> channels[c][n]]]
          /\ closing' = closing \cup {c}
      BY <2>7 DEF ChannelClose
    <3> QED BY <1>0, <3>1 DEF ChannelsOK, OpenedOnlyEnds, Opened
  <2>8. CASE BasicPublish(c) \/ ContentHeader(c) \/ ContentBody(c)
    <3>1. /\ Chan(c) \in Channel /\ UnderWay(c, Chan(c))
          /\ Chan(c).state \in {"OPENED", "WAITING_HEADER", "WAITING_BODY"}
          /\ NextFrame(c) \in Frame
      BY <2>8, ChanTyped, NextFrameKnown DEF TrackerInv, BasicPublish, ContentHeader,
                                             ContentBody, OnOpened, OnChannel
    <3>2. ASSUME NEW ch, SetChannel(c, ch), ch.state # "WAITING_OPEN" PROVE OpenedOnlyEnds
      BY <1>0, <3>1, <3>2, SetOpened
    <3>3. CASE BasicPublish(c)
      <4> DEFINE ch == [Chan(c) EXCEPT !.state = "WAITING_HEADER",
                                       !.exchange = NextFrame(c).exchange]
      <4>1. SetChannel(c, ch) /\ UNCHANGED closing
        BY <3>3 DEF BasicPublish, brokerVars
      <4>2. ch.state = "WAITING_HEADER"
        BY <3>1 DEF Channel
      <4> HIDE DEF ch
      <4> QED BY <3>2, <4>1, <4>2
    <3>4. CASE ContentHeader(c)
      <4> DEFINE ch == [Chan(c) EXCEPT !.state = "WAITING_BODY",
                            !.message = [id |-> NextFrame(c).id, content |-> <<>>]]
      <4>1. SetChannel(c, ch) /\ UNCHANGED closing
        BY <3>4 DEF ContentHeader, brokerVars
      <4>2. ch.state = "WAITING_BODY"
        BY <3>1 DEF Channel
      <4> HIDE DEF ch
      <4> QED BY <3>2, <4>1, <4>2
    <3>5. CASE ContentBody(c)
      <4>1. PICK message :
                /\ \/ SetChannel(c, [Chan(c) EXCEPT !.message = message])
                   \/ SetChannel(c, [Chan(c) EXCEPT !.state = "OPENED", !.message = None])
                /\ closing \subseteq closing'
        BY <3>5 DEF ContentBody, brokerVars
      <4> DEFINE ch1 == [Chan(c) EXCEPT !.message = message]
                 ch2 == [Chan(c) EXCEPT !.state = "OPENED", !.message = None]
      <4>2. ch1.state # "WAITING_OPEN" /\ ch2.state # "WAITING_OPEN"
        BY <3>1 DEF Channel
      <4>3. SetChannel(c, ch1) \/ SetChannel(c, ch2)
        BY <4>1
      <4> HIDE DEF ch1, ch2
      <4> QED BY <3>2, <4>1, <4>2, <4>3
    <3> QED BY <2>8, <3>3, <3>4, <3>5
  <2> QED BY <1>3, <2>1, <2>2, <2>3, <2>4, <2>5, <2>6, <2>7, <2>8 DEF TreatFrame
<1>4. CASE \E c \in Conns : \/ SendRequest(c) \/ SendPublish(c) \/ SendContent(c)
                            \/ data_received(c) \/ connection_lost(c)
  BY <1>2, <1>4 DEF SendRequest, SendPublish, SendContent, data_received,
       check_protocol_header, connection_lost, brokerVars, trackerVars
<1>5. CASE Backdoor \/ UNCHANGED vars
  BY <1>1, <1>5 DEF Backdoor, vars, brokerVars, trackerVars
<1> QED BY <1>3, <1>4, <1>5 DEF Next

\* A channel number is one byte in every reply (sender.py:239): numbers above are
\* never opened, however often the clients try.
THEOREM OpenChannelAlwaysFits == Spec => []OpenChannelFitsByte
<1>1. Init => OpenChannelFitsByte
  BY DEF Init, EmptyDict, OpenChannelFitsByte
<1>2. TrackerInv /\ OpenChannelFitsByte /\ [Next]_vars => OpenChannelFitsByte'
  <2>1. TrackerInv /\ [Next]_vars => OpenedOnlyEnds
    BY OpenedLife
  <2>2. OpenedOnlyEnds /\ OpenChannelFitsByte => OpenChannelFitsByte'
    BY DEF OpenedOnlyEnds, Opened, OpenChannelFitsByte, MaxChannel
  <2> QED BY <2>1, <2>2
<1> QED BY <1>1, <1>2, TrackerInvariant, PTL DEF Spec

\* Who is registered after a step was registered before, or consumes on a channel
\* that is opened.
RegisteredOnOpened ==
    \A q \in DOMAIN queues' : \A k \in Elements(queues'[q].consumers) :
        \/ q \in DOMAIN queues /\ k \in Elements(queues[q].consumers)
        \/ k.conn \in Conns /\ k.chan \in Opened(k.conn)

\* The operations of the broker but register_consumer register nobody.
LEMMA NobodyRegistered ==
    ASSUME BrokerInv,
           \/ UNCHANGED queues
           \/ reset
           \/ \E q \in Queues : declare_queue(q) \/ delete_messages_of_queue(q)
           \/ \E e, m : store_message(e, m)
           \/ \E e, m, t : publish_message(e, m, t)
           \/ \E q, m, t : publish_message_in_queue(q, m, t)
    PROVE  RegisteredOnOpened
<1>0. \A q \in DOMAIN queues : queues[q] \in Queue
  BY DEF BrokerInv, BrokerTypeOK, IsDict
<1>1. CASE UNCHANGED queues
  BY <1>1 DEF RegisteredOnOpened
<1>2. CASE reset
  BY <1>2 DEF reset, EmptyDict, RegisteredOnOpened
<1>3. ASSUME NEW q \in Queues, declare_queue(q) PROVE RegisteredOnOpened
  BY <1>1, <1>3 DEF declare_queue, Put, EmptyQueue, Elements, RegisteredOnOpened
<1>4. ASSUME NEW q \in Queues, delete_messages_of_queue(q) PROVE RegisteredOnOpened
  BY <1>0, <1>4 DEF delete_messages_of_queue, Queue, RegisteredOnOpened
<1>5. ASSUME NEW e, NEW m, store_message(e, m) PROVE RegisteredOnOpened
  <2>1. CASE e \notin DOMAIN exchanges
    BY <1>1, <1>5, <2>1 DEF store_message
  <2>2. CASE e \in DOMAIN exchanges
    BY <1>0, <1>5, <2>2, ZenonT(60) DEF store_message, Queue, RegisteredOnOpened
  <2> QED BY <2>1, <2>2
<1>6. ASSUME NEW q \in DOMAIN queues, NEW kept, NEW m, NEW t, Offer(q, kept, m, t)
      PROVE  RegisteredOnOpened
  <2> DEFINE s == queues[q].consumers
  <2>1. PICK dead \in 0 .. Len(s) :
            \/ queues' = [queues EXCEPT ![q].messages = kept]
            \/ queues' = [queues EXCEPT ![q] =
                             [messages |-> kept, consumers |-> Survivors(s, dead)]]
    BY <1>6 DEF Offer
  <2>2. queues[q] \in Queue /\ s \in Seq(Consumer) /\ UniqueTags(s)
    BY <1>0 DEF Queue, BrokerInv, BrokerTypeOK
  <2>3. Elements(Survivors(s, dead)) \subseteq Elements(s)
    <3> HIDE DEF s
    <3> QED BY <2>2, SurvivingConsumers
  <2>4. queues'[q].consumers = s \/ queues'[q].consumers = Survivors(s, dead)
    BY <2>1, <2>2 DEF Queue
  <2>5. DOMAIN queues' = DOMAIN queues /\ \A x \in DOMAIN queues : x # q => queues'[x] = queues[x]
    BY <2>1
  <2> QED BY <2>3, <2>4, <2>5 DEF RegisteredOnOpened
<1>7. ASSUME NEW e, NEW m, NEW t, publish_message(e, m, t) PROVE RegisteredOnOpened
  <2>1. BoundTo(e) \subseteq DOMAIN queues
    BY DEF BrokerInv, BindingsResolve, BoundTo
  <2> QED BY <1>1, <1>6, <1>7, <2>1 DEF publish_message
<1>8. ASSUME NEW q, NEW m, NEW t, publish_message_in_queue(q, m, t)
      PROVE  RegisteredOnOpened
  BY <1>1, <1>6, <1>8 DEF publish_message_in_queue
<1> QED BY <1>1, <1>2, <1>3, <1>4, <1>5, <1>7, <1>8

\* Who registers does so on an opened channel of its own (protocol.py:313-320).
LEMMA RegistersOnOpened ==
    ASSUME TrackerInv, NEW c \in Conns, BasicConsume(c) PROVE RegisteredOnOpened
<1> DEFINE f == NextFrame(c)
           k == [tag |-> f.tag, conn |-> c, chan |-> f.chan]
<1>1. f.chan \in Opened(c)
  BY DEF BasicConsume, OnOpened, OnChannel, Chan, NewChannel, Opened
<1>2. f.tag \in ConsumerTags /\ f.chan \in Channels
  BY OpenedOK, FrameFields DEF BasicConsume
<1>3. register_consumer(c, f.tag, f.queue, f.chan) /\ BrokerInv
  BY DEF BasicConsume, TrackerInv
<1>4. CASE f.queue \notin DOMAIN queues
  BY <1>3, <1>4, NobodyRegistered DEF register_consumer
<1>5. CASE f.queue \in DOMAIN queues
  <2> DEFINE s == queues[f.queue].consumers
  <2>1. queues[f.queue] \in Queue /\ s \in Seq(Consumer) /\ UniqueTags(s)
    BY <1>3, <1>5 DEF BrokerInv, BrokerTypeOK, IsDict, Queue
  <2>2. k \in Consumer
    BY <1>2 DEF Consumer
  <2>3. queues' = [queues EXCEPT ![f.queue].consumers = Enter(s, k)]
    BY <1>3, <1>5 DEF register_consumer
  <2>4. k.conn = c /\ k.chan = f.chan
    OBVIOUS
  <2> HIDE DEF s, k, f
  <2>5. \A x \in Elements(Enter(s, k)) : x = k \/ x \in Elements(s)
    BY <2>1, <2>2, EnterConsumer
  <2>6. /\ DOMAIN queues' = DOMAIN queues
        /\ queues'[f.queue].consumers = Enter(s, k)
        /\ \A x \in DOMAIN queues : x # f.queue => queues'[x] = queues[x]
    BY <1>5, <2>1, <2>3 DEF Queue
  <2>7. s = queues[f.queue].consumers
    BY DEF s
  <2> QED BY <1>1, <2>4, <2>5, <2>6, <2>7 DEF RegisteredOnOpened
<1> QED BY <1>4, <1>5

\* The registrations of every step.
LEMMA Registrations == TrackerInv /\ [Next]_vars => RegisteredOnOpened
<1> SUFFICES ASSUME TrackerInv, [Next]_vars PROVE RegisteredOnOpened
  OBVIOUS
<1>0. BrokerInv
  BY DEF TrackerInv
<1>1. CASE UNCHANGED queues
  BY <1>0, <1>1, NobodyRegistered
<1>2. ASSUME NEW c \in Conns, TreatFrame(c) PROVE RegisteredOnOpened
  <2>1. CASE UndecodableFrame(c) \/ HeartBeat(c) \/ ConnectionClose(c)
             \/ ConnectionIgnored(c) \/ TuneOk(c) \/ Open(c) \/ ChannelOpen(c)
             \/ ChannelNotOpen(c) \/ ChannelClose(c) \/ BasicPublish(c)
             \/ ContentHeader(c) \/ NoEffect(c)
    BY <1>1, <2>1 DEF UndecodableFrame, HeartBeat, ConnectionClose, ConnectionIgnored,
         TuneOk, Open, Handshake, ChannelOpen, ChannelNotOpen, ChannelClose,
         BasicPublish, ContentHeader, NoEffect, brokerVars, tables, routing
  <2>2. CASE StartOk(c)
    BY <1>1, <2>2 DEF StartOk, check_credentials, tables, routing
  <2>3. CASE ExchangeDeclare(c) \/ QueueBind(c) \/ BasicAck(c) \/ BasicNack(c)
    BY <1>1, <2>3 DEF ExchangeDeclare, QueueBind, BasicAck, BasicNack, declare_exchange,
         bind_queue, message_ack, message_nack, routing
  <2>4. CASE QueueDeclare(c)
    <3>1. NextFrame(c).queue \in Queues
      BY <2>4, OpenedOK, FrameFields DEF QueueDeclare
    <3> QED BY <1>0, <2>4, <3>1, NobodyRegistered DEF QueueDeclare
  <2>5. CASE BasicConsume(c)
    BY <2>5, RegistersOnOpened
  <2>6. CASE ContentBody(c)
    <3>1. UNCHANGED brokerVars \/ \E e, m : store_message(e, m)
      BY <2>6 DEF ContentBody
    <3> QED BY <1>0, <1>1, <3>1, NobodyRegistered DEF brokerVars, tables, routing
  <2> QED BY <1>2, <2>1, <2>2, <2>3, <2>4, <2>5, <2>6 DEF TreatFrame
<1>3. CASE \E c \in Conns : \/ SendRequest(c) \/ SendPublish(c) \/ SendContent(c)
                            \/ data_received(c) \/ connection_lost(c)
  BY <1>1, <1>3 DEF SendRequest, SendPublish, SendContent, data_received,
       connection_lost, brokerVars, tables, routing
<1>4. CASE Backdoor
  <2>1. CASE \/ \E e \in Exchanges, t \in Types : declare_exchange(e, t)
             \/ \E e \in Exchanges : delete_messages_of_exchange(e)
    BY <1>1, <2>1 DEF declare_exchange, delete_messages_of_exchange
  <2> QED BY <1>0, <1>4, <2>1, NobodyRegistered DEF Backdoor
<1>5. CASE UNCHANGED vars
  BY <1>1, <1>5 DEF vars, brokerVars, tables, routing
<1> QED BY <1>2, <1>3, <1>4, <1>5 DEF Next

\* A delivery is written to the channel the consumer registered on without looking
\* whether it is there (state.py:269, 326): for a transport that is not closing it
\* is, and it is opened.
THEOREM ConsumerChannelAlwaysOpen == Spec => []ConsumerChannelOpen
<1>1. Init => ConsumerChannelOpen
  BY DEF Init, BrokerInit, EmptyDict, ConsumerChannelOpen
<1>2. TrackerInv /\ ConsumerChannelOpen /\ [Next]_vars => ConsumerChannelOpen'
  <2> SUFFICES ASSUME TrackerInv, ConsumerChannelOpen, [Next]_vars,
                      NEW q \in DOMAIN queues', NEW k \in Elements(queues'[q].consumers),
                      k.conn \notin closing'
               PROVE  /\ k.chan \in DOMAIN channels'[k.conn]
                      /\ channels'[k.conn][k.chan].state # "WAITING_OPEN"
    BY DEF ConsumerChannelOpen
  <2>1. OpenedOnlyEnds /\ k.conn \notin closing
    BY OpenedLife
  <2>2. k.conn \in Conns
    <3>1. queues'[q].consumers \in Seq(Consumer)
      BY TrackerNext DEF TrackerInv, BrokerInv, BrokerTypeOK, IsDict, Queue
    <3>2. k \in Consumer
      BY <3>1, LenProperties, ElementOfSeq DEF Elements
    <3> QED BY <3>2 DEF Consumer
  <2>3. k.chan \in Opened(k.conn)
    BY <2>1, Registrations DEF RegisteredOnOpened, ConsumerChannelOpen, Opened
  <2>4. k.chan \in Opened(k.conn)'
    BY <2>1, <2>2, <2>3 DEF OpenedOnlyEnds
  <2> QED BY <2>4 DEF Opened
<1> QED BY <1>1, <1>2, TrackerInvariant, PTL DEF Spec

\* What BrokerStateProofs shows of the tables holds in the server as a whole: no
\* lookup of a bound name raises, and deliveries go to one live registered worker.
THEOREM ServerKeepsBroker ==
    Spec => /\ [](BindingsResolve /\ DefaultBinding /\ PushedTagIsIssued)
            /\ OneLiveReceiver
            /\ LiveConsumersKept
BY ServerImplementsBroker, BindingsAlwaysResolve, DefaultAlwaysBound,
   PushedAlwaysIssued, OneLiveReceiverAlways, LiveConsumersKeptAlways, PTL

-----------------------------------------------------------------------------
(* What the loop leaves in the buffer *)

\* A connection whose loop is under way, or has ended for want of frames, or on
\* its way out.
Going(c) == c \in closing \/ running = c \/ buffer[c] = <<>>

\* The named places where the loop gives up (protocol.py:104-110, 139; sender.py:239).
GivenUp(c) ==
    \/ Head(buffer[c]).method = "UNDECODABLE"
    \/ parser_state[c] \in {"WAITING_START_OK", "WAITING_TUNE_OK"}
    \/ \E n \in DOMAIN channels[c] : n > MaxChannel

LEMMA ContinueGoes ==
    ASSUME FramesOK, NEW c \in Conns, Reading(c), Continue(c)
    PROVE  running' = c \/ buffer'[c] = <<>>
<1>1. buffer[c] \in Seq(Frame) /\ buffer[c] # <<>> /\ buffer'[c] = Tail(buffer[c])
  BY DEF FramesOK, Reading, Continue, Consume
<1>2. ASSUME Len(buffer[c]) = 1 PROVE Tail(buffer[c]) = <<>>
  <2>1. Tail(buffer[c]) \in Seq(Frame) /\ Len(Tail(buffer[c])) = 0
    BY <1>1, <1>2, HeadTailProperties
  <2> QED BY <2>1, EmptySeq
<1> QED BY <1>1, <1>2 DEF Continue

\* A turn of the loop ends in one of these ways on its own connection.
LEMMA TurnGoes ==
    ASSUME TrackerInv, NEW c \in Conns, TreatFrame(c) PROVE Going(c)' \/ GivenUp(c)'
<1>0. FramesOK /\ ChannelsOK /\ parser_state \in [Conns -> ConnectionState]
  BY DEF TrackerInv
<1>1. ASSUME Reading(c), Continue(c) PROVE Going(c)'
  BY <1>0, <1>1, ContinueGoes DEF Going
<1>2. CASE UndecodableFrame(c)
  BY <1>2 DEF UndecodableFrame, NextFrame, GivenUp
<1>3. CASE HeartBeat(c) \/ ConnectionIgnored(c)
  BY <1>1, <1>3 DEF HeartBeat, ConnectionIgnored, OnConnection
<1>4. CASE ConnectionClose(c)
  BY <1>4 DEF ConnectionClose, Going
<1>5. CASE StartOk(c)
  <2>1. parser_state'[c] \in {"WAITING_START_OK", "WAITING_TUNE_OK"}
    BY <1>0, <1>5 DEF StartOk
  <2> QED BY <2>1 DEF GivenUp
<1>6. CASE TuneOk(c) \/ Open(c)
  BY <1>1, <1>6 DEF TuneOk, Open, Handshake, OnConnection, Going
<1>7. CASE ChannelOpen(c)
  <2>1. CASE NextFrame(c).chan > MaxChannel
    <3>1. channels'[c] = Put(channels[c], NextFrame(c).chan, Chan(c))
      BY <1>0, <1>7, <2>1 DEF ChannelOpen, SetChannel, ChannelsOK
    <3>2. NextFrame(c).chan \in DOMAIN channels'[c]
      BY <3>1 DEF Put
    <3> QED BY <2>1, <3>2 DEF GivenUp
  <2>2. CASE ~ (NextFrame(c).chan > MaxChannel)
    BY <1>1, <1>7, <2>2 DEF ChannelOpen, OnChannel
  <2> QED BY <2>1, <2>2
<1>8. CASE ChannelNotOpen(c) \/ ChannelClose(c) \/ ContentHeader(c) \/ ContentBody(c)
           \/ NoEffect(c)
  BY <1>1, <1>8 DEF ChannelNotOpen, ChannelClose, ContentHeader, ContentBody, NoEffect,
                    OnChannel
<1>9. CASE ExchangeDeclare(c) \/ QueueDeclare(c) \/ QueueBind(c) \/ BasicConsume(c)
           \/ BasicAck(c) \/ BasicNack(c) \/ BasicPublish(c)
  BY <1>1, <1>9 DEF ExchangeDeclare, QueueDeclare, QueueBind, BasicConsume, BasicAck,
                    BasicNack, BasicPublish, OnOpened, OnChannel
<1> QED BY <1>2, <1>3, <1>4, <1>5, <1>6, <1>7, <1>8, <1>9 DEF TreatFrame

\* A turn of the loop leaves the other connections alone.
LEMMA TurnOfAnother ==
    ASSUME TrackerInv, NEW c \in Conns, NEW x \in Conns, x # c, TreatFrame(c)
    PROVE  /\ buffer'[x] = buffer[x] /\ parser_state'[x] = parser_state[x]
           /\ channels'[x] = channels[x] /\ running # x
<1>0. FramesOK /\ ChannelsOK /\ parser_state \in [Conns -> ConnectionState]
  BY DEF TrackerInv
<1>1. buffer' \in {buffer, [buffer EXCEPT ![c] = Tail(@)]} /\ running = c
  BY DEF TreatFrame, UndecodableFrame, HeartBeat, ConnectionClose, StartOk, TuneOk, Open,
     Handshake, ConnectionIgnored, ChannelOpen, ChannelNotOpen, ChannelClose,
     ExchangeDeclare, QueueDeclare, QueueBind, BasicConsume, BasicAck, BasicNack,
     BasicPublish, ContentHeader, ContentBody, NoEffect, OnConnection, OnOpened,
     OnChannel, Reading, Continue, Return, Consume
<1>2. parser_state' = parser_state \/ \E s : parser_state' = [parser_state EXCEPT ![c] = s]
  BY DEF TreatFrame, UndecodableFrame, HeartBeat, ConnectionClose, StartOk, TuneOk, Open,
     Handshake, ConnectionIgnored, ChannelOpen, ChannelNotOpen, ChannelClose,
     ExchangeDeclare, QueueDeclare, QueueBind, BasicConsume, BasicAck, BasicNack,
     BasicPublish, ContentHeader, ContentBody, NoEffect, OnOpened
<1>3. channels' = channels \/ \E d : channels' = [channels EXCEPT ![c] = d]
  BY DEF TreatFrame, UndecodableFrame, HeartBeat, ConnectionClose, StartOk, TuneOk, Open,
     Handshake, ConnectionIgnored, ChannelOpen, ChannelNotOpen, ChannelClose,
     ExchangeDeclare, QueueDeclare, QueueBind, BasicConsume, BasicAck, BasicNack,
     BasicPublish, ContentHeader, ContentBody, NoEffect, SetChannel
<1> QED BY <1>0, <1>1, <1>2, <1>3, SMTT(60) DEF FramesOK, ChannelsOK

\* Frames stay in the buffer of an open connection (protocol.py:103-139) at the named
\* places only: a frame is never forgotten there for another reason.
THEOREM NothingLeftUnreadAlways == Spec => []NothingLeftUnread
<1>1. Init => NothingLeftUnread
  BY DEF Init, NothingLeftUnread
<1>2. TrackerInv /\ NothingLeftUnread /\ [Next]_vars => NothingLeftUnread'
  <2> SUFFICES ASSUME TrackerInv, NothingLeftUnread, [Next]_vars, NEW x \in Conns
               PROVE  Going(x)' \/ GivenUp(x)'
    BY DEF NothingLeftUnread, Going, GivenUp
  <2>0. /\ Going(x) \/ GivenUp(x)
        /\ closing \subseteq closing'
        /\ FramesOK /\ parser_state \in [Conns -> ConnectionState]
    BY OpenedLife DEF NothingLeftUnread, Going, GivenUp, TrackerInv
  <2>1. ASSUME UNCHANGED <<buffer[x], parser_state[x], channels[x]>>, running # x
        PROVE  Going(x)' \/ GivenUp(x)'
    BY <2>0, <2>1 DEF Going, GivenUp
  <2>2. ASSUME NEW c \in Conns, TreatFrame(c) PROVE Going(x)' \/ GivenUp(x)'
    BY <2>1, <2>2, TurnGoes, TurnOfAnother
  <2>3. ASSUME running = Idle PROVE running # x
    BY <2>3, TrackerAssumption
  <2>4. ASSUME NEW c \in Conns, data_received(c) PROVE Going(x)' \/ GivenUp(x)'
    <3>1. CASE parser_state[c] = "WAITING_PROTOCOL_HEADER" /\ c = x
      <4>1. UNCHANGED <<buffer, channels>> /\ running # x
        BY <2>3, <2>4, <3>1 DEF data_received, check_protocol_header, Connected
      <4>2. parser_state'[x] \in {parser_state[x], "WAITING_START_OK"}
        BY <2>0, <2>4, <3>1 DEF data_received, check_protocol_header
      <4> QED BY <2>0, <4>1, <4>2 DEF Going, GivenUp
    <3>2. CASE parser_state[c] # "WAITING_PROTOCOL_HEADER" /\ c = x
      BY <2>4, <3>2 DEF data_received, Going
    <3>3. CASE c # x
      BY <2>0, <2>1, <2>3, <2>4, <3>3 DEF data_received, check_protocol_header, Connected,
                                          FramesOK
    <3> QED BY <3>1, <3>2, <3>3
  <2>5. ASSUME NEW c \in Conns,
               SendRequest(c) \/ SendPublish(c) \/ SendContent(c) \/ connection_lost(c)
        PROVE  Going(x)' \/ GivenUp(x)'
    BY <2>1, <2>3, <2>5 DEF SendRequest, SendPublish, SendContent, connection_lost,
                            Connected, trackerVars
  <2>6. CASE Backdoor
    BY <2>1, <2>3, <2>6 DEF Backdoor, trackerVars
  <2>7. CASE UNCHANGED vars
    BY <2>0, <2>7 DEF vars, brokerVars, trackerVars, Going, GivenUp
  <2> QED BY <2>2, <2>4, <2>5, <2>6, <2>7 DEF Next
<1> QED BY <1>1, <1>2, TrackerInvariant, PTL DEF Spec
=============================================================================
