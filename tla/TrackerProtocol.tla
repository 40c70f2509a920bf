-------------------------- MODULE TrackerProtocol --------------------------
(***************************************************************************)
(* The AMQP side of the server: class TrackerProtocol (protocol.py), one   *)
(* instance per connection, over the broker tables of BrokerState.         *)
(*                                                                         *)
(* asyncio calls data_received with the bytes that have arrived; its loop  *)
(* treats the complete frames of the buffer one by one, and no other       *)
(* handler of the server runs before it returns.  Here each iteration is   *)
(* one action, and `running' is the connection whose loop is under way.    *)
(* What reaches the transport is not recorded: replies change no state.    *)
(*                                                                         *)
(* The clients are external.  A client sends any of Requests at any time,  *)
(* except that it frames content as AMQP prescribes: nothing else on the   *)
(* channel between basic.publish and the last body frame.                  *)
(***************************************************************************)
EXTENDS BrokerState

CONSTANTS
    Requests,   \* the method frames clients send
    BodySize,   \* message -> number of body frames its content takes
    Idle,       \* no data_received is under way
    None,       \* a key the channel's dict does not hold yet
    MaxInFlight,    \* bound: frames of a connection sent and not treated yet
    MaxPublished    \* bound: publications of a connection

VARIABLES
    parser_state,   \* connection -> _ConnectionState
    buffer,         \* connection -> complete frames not treated yet
    channels,       \* connection -> channel number -> the channel's dict
    running,
    stored,         \* history: connection -> messages stored for it
    arriving,       \* client: frames sent and not received yet
    pending,        \* client: channel -> content frames it still has to send
    published       \* client: its basic.publish, numbered by position

client == <<arriving, pending, published>>
trackerVars == <<parser_state, buffer, channels, running, stored, client>>
vars == <<brokerVars, trackerVars>>

-----------------------------------------------------------------------------
(* Frames: method.py and frame.py, decoded *)

ProtocolHeader == [method |-> "PROTOCOL_HEADER", chan |-> 0]

ConnectionFrame ==
    [method : {"START_OK"}, chan : {0}, mechanism : {"PLAIN", "AMQPLAIN", "OTHER"},
     user : Users, password : Passwords]
    \cup [method : {"TUNE_OK", "OPEN", "CLOSE", "HEARTBEAT", "UNDECODABLE"}, chan : {0}]
    \cup {ProtocolHeader}

ChannelFrame ==
    [method : {"CHANNEL_OPEN", "CHANNEL_CLOSE", "BASIC_QOS", "BASIC_CANCEL"},
     chan : Channels]
    \cup [method : {"EXCHANGE_DECLARE"}, chan : Channels, exchange : Exchanges, type : Types]
    \cup [method : {"QUEUE_DECLARE"}, chan : Channels, queue : Queues]
    \cup [method : {"QUEUE_BIND"}, chan : Channels, queue : Queues, exchange : Exchanges]
    \cup [method : {"BASIC_CONSUME"}, chan : Channels, queue : Queues, tag : ConsumerTags]
    \cup [method : {"BASIC_ACK"}, chan : Channels, dtag : DeliveryTags]
    \cup [method : {"BASIC_NACK"}, chan : Channels, dtag : DeliveryTags, requeue : BOOLEAN]

\* `id' is the client's numbering, there to tell publications apart.
PublishFrame == [method : {"BASIC_PUBLISH"}, chan : Channels, exchange : Exchanges, id : Nat]
HeaderFrame  == [method : {"HEADER"}, chan : Channels, id : Nat]
BodyFrame    == [method : {"BODY"}, chan : Channels, id : Nat, part : Nat]
Frame == ConnectionFrame \cup ChannelFrame \cup PublishFrame \cup HeaderFrame \cup BodyFrame

ASSUME TrackerAssumption ==
    /\ Channels \subseteq Nat \ {0}
    /\ Requests \subseteq ConnectionFrame \cup ChannelFrame
    /\ BodySize \in [Messages -> Nat]
    /\ Idle \notin Conns
    /\ MaxInFlight \in Nat /\ MaxPublished \in Nat

ConnectionState == {"WAITING_PROTOCOL_HEADER", "WAITING_START_OK", "WAITING_TUNE_OK",
                    "WAITING_OPEN", "OPENED"}
ChannelState == {"WAITING_OPEN", "OPENED", "WAITING_HEADER", "WAITING_BODY"}
Message == [id : Nat, content : Seq(Nat \X Nat)]
Channel == [state : ChannelState, exchange : Exchanges \cup {None},
            message : Message \cup {None}]
Publication == [chan : Channels, exchange : Exchanges, msg : Messages]
Stored == [chan : Channels, exchange : Exchanges, id : Nat, content : Seq(Nat \X Nat)]

-----------------------------------------------------------------------------
(* The clients, between two callbacks of the server: what one sends during a *)
(* callback is not read before the next.                                     *)

Send(c, f) ==
    /\ Len(arriving[c]) + Len(buffer[c]) < MaxInFlight
    /\ arriving' = [arriving EXCEPT ![c] = Append(@, f)]

Connected(c) == running = Idle /\ c \notin closing

\* Greeting comes first, once; method frames do not cut a publication in two.
SendRequest(c) ==
    /\ Connected(c)
    /\ \E f \in Requests :
          /\ f = ProtocolHeader =>
                arriving[c] = <<>> /\ parser_state[c] = "WAITING_PROTOCOL_HEADER"
          /\ f.chan # 0 => pending[c][f.chan] = <<>>
          /\ Send(c, f)
    /\ UNCHANGED <<brokerVars, parser_state, buffer, channels, running, stored,
                   pending, published>>

Content(n, id, m) ==
    <<[method |-> "HEADER", chan |-> n, id |-> id]>>
    \o [k \in 1 .. BodySize[m] |-> [method |-> "BODY", chan |-> n, id |-> id, part |-> k]]

SendPublish(c) ==
    /\ Connected(c)
    /\ \E n \in Channels, e \in Exchanges, m \in Messages :
          LET id == Len(published[c]) + 1 IN
          /\ pending[c][n] = <<>>
          /\ id <= MaxPublished
          /\ published' = [published EXCEPT ![c] =
                               Append(@, [chan |-> n, exchange |-> e, msg |-> m])]
          /\ pending' = [pending EXCEPT ![c][n] = Content(n, id, m)]
          /\ Send(c, [method |-> "BASIC_PUBLISH", chan |-> n, exchange |-> e, id |-> id])
    /\ UNCHANGED <<brokerVars, parser_state, buffer, channels, running, stored>>

SendContent(c) ==
    /\ Connected(c)
    /\ \E n \in Channels :
          /\ pending[c][n] # <<>>
          /\ Send(c, Head(pending[c][n]))
          /\ pending' = [pending EXCEPT ![c][n] = Tail(@)]
    /\ UNCHANGED <<brokerVars, parser_state, buffer, channels, running, stored, published>>

-----------------------------------------------------------------------------
(* data_received: what has arrived is added to the buffer and the loop starts *)

\* Before the handshake the buffer must be the protocol header and nothing else.
check_protocol_header(c) ==
    /\ IF arriving[c] = <<ProtocolHeader>>
       THEN /\ parser_state' = [parser_state EXCEPT ![c] = "WAITING_START_OK"]
            /\ UNCHANGED closing
       ELSE /\ closing' = closing \cup {c}
            /\ UNCHANGED parser_state
    /\ UNCHANGED <<buffer, running>>

data_received(c) ==
    /\ Connected(c)
    /\ arriving[c] # <<>>
    /\ arriving' = [arriving EXCEPT ![c] = <<>>]
    /\ IF parser_state[c] = "WAITING_PROTOCOL_HEADER"
       THEN check_protocol_header(c)
       ELSE /\ buffer' = [buffer EXCEPT ![c] = @ \o arriving[c]]
            /\ running' = c
            /\ UNCHANGED <<parser_state, closing>>
    /\ UNCHANGED <<tables, channels, stored, pending, published>>

NextFrame(c) == Head(buffer[c])
Reading(c) == running = c /\ buffer[c] # <<>>

Consume(c) == buffer' = [buffer EXCEPT ![c] = Tail(@)]

\* Regression: another turn of the loop although the buffer is empty.
Continue_always(c) == Consume(c) /\ running' = c

\* `continue': the loop ends when the buffer is empty.
Continue(c) ==
    /\ Consume(c)
    /\ running' = IF Len(buffer[c]) = 1 THEN Idle ELSE c

\* `return': what is left in the buffer waits for the next data_received.
Return(c) == Consume(c) /\ running' = Idle

\* An exception leaves data_received.  Since Python 3.7 asyncio then closes the
\* transport; before, it only reports.  The Dockerfile pins no version.
Raise(c) ==
    /\ running' = Idle
    /\ \/ closing' = closing \cup {c}
       \/ UNCHANGED closing

\* read_frame finds no frame in the bytes or raises on them: the buffer keeps
\* them at its head.
UndecodableFrame(c) ==
    /\ Reading(c)
    /\ NextFrame(c).method = "UNDECODABLE"
    /\ Raise(c)
    /\ UNCHANGED <<tables, parser_state, buffer, channels, stored, client>>

-----------------------------------------------------------------------------
(* Frames of channel 0 *)

OnConnection(c) ==
    /\ Reading(c)
    /\ NextFrame(c).chan = 0
    /\ NextFrame(c).method \notin {"UNDECODABLE", "HEARTBEAT", "CLOSE"}

HeartBeat(c) ==
    /\ Reading(c)
    /\ NextFrame(c).method = "HEARTBEAT"
    /\ Continue(c)
    /\ UNCHANGED <<brokerVars, parser_state, channels, stored, client>>

ConnectionClose(c) ==
    /\ Reading(c)
    /\ NextFrame(c).method = "CLOSE"
    /\ closing' = closing \cup {c}
    /\ Return(c)
    /\ UNCHANGED <<tables, parser_state, channels, stored, client>>

\* The loop returns after an accepted START_OK; other methods have no mechanism.
StartOk(c) ==
    LET f == NextFrame(c) IN
    /\ OnConnection(c)
    /\ parser_state[c] = "WAITING_START_OK"
    /\ IF f.method # "START_OK"
       THEN Consume(c) /\ Raise(c) /\ UNCHANGED <<tables, parser_state>>
       ELSE /\ Return(c)
            /\ IF f.mechanism = "OTHER" THEN UNCHANGED tables
               ELSE check_credentials(f.user, f.password)
            /\ IF f.mechanism # "OTHER" /\ Authenticated(f.user, f.password)
               THEN /\ parser_state' = [parser_state EXCEPT ![c] = "WAITING_TUNE_OK"]
                    /\ UNCHANGED closing
               ELSE closing' = closing \cup {c} /\ UNCHANGED parser_state
    /\ UNCHANGED <<channels, stored, client>>

\* One step of the handshake: the awaited method moves on, any other closes.
Handshake(c, state, method, next) ==
    /\ OnConnection(c)
    /\ parser_state[c] = state
    /\ IF NextFrame(c).method = method
       THEN /\ Continue(c)
            /\ parser_state' = [parser_state EXCEPT ![c] = next]
            /\ UNCHANGED closing
       ELSE /\ Return(c)
            /\ closing' = closing \cup {c}
            /\ UNCHANGED parser_state
    /\ UNCHANGED <<tables, channels, stored, client>>

TuneOk(c) == Handshake(c, "WAITING_TUNE_OK", "TUNE_OK", "WAITING_OPEN")

\* Regression: a return where the loop should go on with the next frame.
Open_returns(c) ==
    /\ OnConnection(c)
    /\ parser_state[c] = "WAITING_OPEN"
    /\ NextFrame(c).method = "OPEN"
    /\ Return(c)
    /\ parser_state' = [parser_state EXCEPT ![c] = "OPENED"]
    /\ UNCHANGED <<brokerVars, channels, stored, client>>

Open(c) == Handshake(c, "WAITING_OPEN", "OPEN", "OPENED")

ConnectionIgnored(c) ==
    /\ OnConnection(c)
    /\ parser_state[c] = "OPENED"
    /\ Continue(c)
    /\ UNCHANGED <<brokerVars, parser_state, channels, stored, client>>

-----------------------------------------------------------------------------
(* Frames of a channel: taken in every state of the connection past its header *)

NewChannel == [state |-> "WAITING_OPEN", exchange |-> None, message |-> None]

\* The channel of the frame, upserted.
Chan(c) ==
    LET n == NextFrame(c).chan IN
    IF n \in DOMAIN channels[c] THEN channels[c][n] ELSE NewChannel

SetChannel(c, ch) ==
    channels' = [channels EXCEPT ![c] = Put(@, NextFrame(c).chan, ch)]

OnChannel(c, states) ==
    Reading(c) /\ NextFrame(c).chan # 0 /\ Chan(c).state \in states

\* bytearray([1, 0, channel_number]), the start of every reply and delivery,
\* raises ValueError above.
MaxChannel == 255

\* Regression: the channel is marked opened before open-ok is written.
ChannelOpen_marks_first(c) ==
    /\ OnChannel(c, {"WAITING_OPEN"})
    /\ NextFrame(c).method = "CHANNEL_OPEN"
    /\ SetChannel(c, [Chan(c) EXCEPT !.state = "OPENED"])
    /\ IF NextFrame(c).chan > MaxChannel THEN Consume(c) /\ Raise(c)
       ELSE Continue(c) /\ UNCHANGED closing
    /\ UNCHANGED <<tables, parser_state, stored, client>>

ChannelOpen(c) ==
    /\ OnChannel(c, {"WAITING_OPEN"})
    /\ NextFrame(c).method = "CHANNEL_OPEN"
    /\ IF NextFrame(c).chan > MaxChannel
       THEN Consume(c) /\ Raise(c) /\ SetChannel(c, Chan(c))
       ELSE /\ Continue(c)
            /\ SetChannel(c, [Chan(c) EXCEPT !.state = "OPENED"])
            /\ UNCHANGED closing
    /\ UNCHANGED <<tables, parser_state, stored, client>>

\* Nothing else may come first; the loop goes on with the frames that follow.
ChannelNotOpen(c) ==
    /\ OnChannel(c, {"WAITING_OPEN"})
    /\ NextFrame(c).method # "CHANNEL_OPEN"
    /\ SetChannel(c, Chan(c))
    /\ closing' = closing \cup {c}
    /\ Continue(c)
    /\ UNCHANGED <<tables, parser_state, stored, client>>

\* Regression: closing a channel leaves the connection open.
ChannelClose_keeps_connection(c) ==
    /\ OnChannel(c, ChannelState \ {"WAITING_OPEN"})
    /\ NextFrame(c).method = "CHANNEL_CLOSE"
    /\ channels' = [channels EXCEPT ![c] =
           [n \in DOMAIN @ \ {NextFrame(c).chan} |-> @[n]]]
    /\ Continue(c)
    /\ UNCHANGED <<brokerVars, parser_state, stored, client>>

\* Closing one channel closes the transport of the connection.
ChannelClose(c) ==
    /\ OnChannel(c, ChannelState \ {"WAITING_OPEN"})
    /\ NextFrame(c).method = "CHANNEL_CLOSE"
    /\ channels' = [channels EXCEPT ![c] =
           [n \in DOMAIN @ \ {NextFrame(c).chan} |-> @[n]]]
    /\ closing' = closing \cup {c}
    /\ Continue(c)
    /\ UNCHANGED <<tables, parser_state, stored, client>>

OnOpened(c, method) ==
    /\ OnChannel(c, {"OPENED"})
    /\ NextFrame(c).method = method
    /\ Continue(c)
    /\ UNCHANGED <<parser_state, stored, client>>

ExchangeDeclare(c) ==
    LET f == NextFrame(c) IN
    /\ OnOpened(c, "EXCHANGE_DECLARE")
    /\ declare_exchange(f.exchange, f.type)
    /\ closing' = IF DeclaredAs(f.exchange, f.type) THEN closing ELSE closing \cup {c}
    /\ UNCHANGED channels

QueueDeclare(c) ==
    /\ OnOpened(c, "QUEUE_DECLARE")
    /\ declare_queue(NextFrame(c).queue)
    /\ UNCHANGED <<closing, channels>>

QueueBind(c) ==
    LET f == NextFrame(c) IN
    /\ OnOpened(c, "QUEUE_BIND")
    /\ bind_queue(f.queue, f.exchange)
    /\ closing' = IF Bindable(f.queue, f.exchange) THEN closing ELSE closing \cup {c}
    /\ UNCHANGED channels

\* consume-ok is sent whatever register_consumer returns.
BasicConsume(c) ==
    LET f == NextFrame(c) IN
    /\ OnOpened(c, "BASIC_CONSUME")
    /\ register_consumer(c, f.tag, f.queue, f.chan)
    /\ UNCHANGED <<closing, channels>>

BasicAck(c) ==
    /\ OnOpened(c, "BASIC_ACK")
    /\ message_ack(NextFrame(c).dtag)
    /\ UNCHANGED <<closing, channels>>

\* Regression: a requeued message is recorded as rejected too.
BasicNack_twice(c) ==
    LET t == NextFrame(c).dtag IN
    /\ OnOpened(c, "BASIC_NACK")
    /\ message_not_acknowledged' = message_not_acknowledged \cup {t}
    /\ message_requeued' = IF NextFrame(c).requeue THEN message_requeued \cup {t}
                           ELSE message_requeued
    /\ UNCHANGED <<routing, authentication_tried_on, message_acknowledged, outputs,
                   closing, channels>>

BasicNack(c) ==
    /\ OnOpened(c, "BASIC_NACK")
    /\ message_nack(NextFrame(c).dtag, NextFrame(c).requeue)
    /\ UNCHANGED <<closing, channels>>

BasicPublish(c) ==
    /\ OnOpened(c, "BASIC_PUBLISH")
    /\ SetChannel(c, [Chan(c) EXCEPT !.state = "WAITING_HEADER",
                                     !.exchange = NextFrame(c).exchange])
    /\ UNCHANGED brokerVars

ContentHeader(c) ==
    /\ OnChannel(c, {"WAITING_HEADER"})
    /\ NextFrame(c).method = "HEADER"
    /\ SetChannel(c, [Chan(c) EXCEPT !.state = "WAITING_BODY",
                          !.message = [id |-> NextFrame(c).id, content |-> <<>>]])
    /\ Continue(c)
    /\ UNCHANGED <<brokerVars, parser_state, stored, client>>

\* Regression: the ongoing message belongs to the connection, not the channel.
add_content_shared(c, content) ==
    LET open == {n \in DOMAIN channels[c] : channels[c][n].state = "WAITING_BODY"} IN
    Append(channels[c][CHOOSE n \in open : \A x \in open : n <= x].message.content, content)

\* Message.add_content on the ongoing message of the channel.
add_content(c, content) == Append(Chan(c).message.content, content)

\* Regression: complete only past the announced size.
is_complete_past(msg, content) == Len(content) > BodySize[msg]

is_complete(msg, content) == Len(content) = BodySize[msg]

\* A body frame: the message is stored when its content has the announced size.
\* When it is refused the channel stays as it is and the transport closes.
ContentBody(c) ==
    LET f     == NextFrame(c)
        ch    == Chan(c)
        whole == [ch.message EXCEPT !.content = add_content(c, <<f.id, f.part>>)]
        msg   == published[c][whole.id].msg
    IN  /\ OnChannel(c, {"WAITING_BODY"})
        /\ f.method = "BODY"
        /\ Continue(c)
        /\ IF ~is_complete(msg, whole.content)
           THEN /\ SetChannel(c, [ch EXCEPT !.message = whole])
                /\ UNCHANGED <<brokerVars, stored>>
           ELSE /\ store_message(ch.exchange, msg)
                /\ IF ch.exchange \in DOMAIN exchanges
                   THEN /\ SetChannel(c, [ch EXCEPT !.state = "OPENED", !.message = None])
                        /\ stored' = [stored EXCEPT ![c] = Append(@,
                               [chan |-> f.chan, exchange |-> ch.exchange,
                                id |-> whole.id, content |-> whole.content])]
                        /\ UNCHANGED closing
                   ELSE /\ SetChannel(c, [ch EXCEPT !.message = whole])
                        /\ closing' = closing \cup {c}
                        /\ UNCHANGED stored
        /\ UNCHANGED <<parser_state, client>>

\* basic.qos and basic.cancel reply only: the consumer stays registered.  Frames
\* that the state of the channel does not treat are dropped without a reply.
NoEffect(c) ==
    /\ \/ /\ OnChannel(c, {"OPENED"})
          /\ NextFrame(c).method \in {"BASIC_QOS", "BASIC_CANCEL", "CHANNEL_OPEN",
                                      "HEADER", "BODY"}
       \/ /\ OnChannel(c, {"WAITING_HEADER"})
          /\ NextFrame(c).method \notin {"CHANNEL_CLOSE", "HEADER"}
       \/ /\ OnChannel(c, {"WAITING_BODY"})
          /\ NextFrame(c).method \notin {"CHANNEL_CLOSE", "BODY"}
    /\ Continue(c)
    /\ UNCHANGED <<brokerVars, parser_state, channels, stored, client>>

-----------------------------------------------------------------------------
(* The rest of the server, between two callbacks, and the specification *)

\* The operations of http_protocol.py that change the tables.
Backdoor ==
    /\ running = Idle
    /\ \/ reset
       \/ \E e \in Exchanges, t \in Types : declare_exchange(e, t)
       \/ \E q \in Queues : declare_queue(q)
       \/ \E q \in Queues : delete_messages_of_queue(q)
       \/ \E e \in Exchanges : delete_messages_of_exchange(e)
       \/ \E e \in Exchanges, m \in Messages, t \in DeliveryTags :
              publish_message(e, m, t)
       \/ \E q \in Queues, m \in Messages, t \in DeliveryTags :
              publish_message_in_queue(q, m, t)
    /\ UNCHANGED <<closing, trackerVars>>

\* The peer disconnects; connection_lost itself changes no table.
connection_lost(c) ==
    /\ Connected(c)
    /\ closing' = closing \cup {c}
    /\ UNCHANGED <<tables, trackerVars>>

TreatFrame(c) ==
    \/ UndecodableFrame(c) \/ HeartBeat(c) \/ ConnectionClose(c) \/ StartOk(c)
    \/ TuneOk(c) \/ Open(c) \/ ConnectionIgnored(c)
    \/ ChannelOpen(c) \/ ChannelNotOpen(c) \/ ChannelClose(c)
    \/ ExchangeDeclare(c) \/ QueueDeclare(c) \/ QueueBind(c) \/ BasicConsume(c)
    \/ BasicAck(c) \/ BasicNack(c) \/ BasicPublish(c)
    \/ ContentHeader(c) \/ ContentBody(c) \/ NoEffect(c)

Init ==
    /\ BrokerInit
    /\ parser_state = [c \in Conns |-> "WAITING_PROTOCOL_HEADER"]
    /\ buffer = [c \in Conns |-> <<>>]
    /\ channels = [c \in Conns |-> EmptyDict]
    /\ running = Idle
    /\ stored = [c \in Conns |-> <<>>]
    /\ arriving = [c \in Conns |-> <<>>]
    /\ pending = [c \in Conns |-> [n \in Channels |-> <<>>]]
    /\ published = [c \in Conns |-> <<>>]

Next ==
    \/ Backdoor
    \/ \E c \in Conns :
          \/ SendRequest(c) \/ SendPublish(c) \/ SendContent(c)
          \/ data_received(c) \/ TreatFrame(c) \/ connection_lost(c)

Spec == Init /\ [][Next]_vars

\* The event loop serves every readable socket, and a handler it has started
\* runs to its end.  Clients and the HTTP side promise nothing.
Fairness ==
    /\ \A c \in Conns : WF_vars(data_received(c))
    /\ WF_vars(\E c \in Conns : TreatFrame(c))

FairSpec == Spec /\ Fairness

-----------------------------------------------------------------------------
(* Properties *)

\* Each connection's parser, channels and buffer have the shape the handlers
\* assume, and the loop that is under way has a frame to treat.
TrackerTypeOK ==
    /\ BrokerTypeOK
    /\ parser_state \in [Conns -> ConnectionState]
    /\ buffer \in [Conns -> Seq(Frame)]
    /\ DOMAIN channels = Conns
    /\ \A c \in Conns : IsDict(channels[c], Channels, Channel)
    /\ running \in Conns \cup {Idle}
    /\ running # Idle => buffer[running] # <<>>
    /\ stored \in [Conns -> Seq(Stored)]
    /\ arriving \in [Conns -> Seq(Frame)]
    /\ pending \in [Conns -> [Channels -> Seq(HeaderFrame \cup BodyFrame)]]
    /\ published \in [Conns -> Seq(Publication)]

\* basic.deliver is written for consumer['channel_number'] without a look at the
\* connection's channels (state.py:269): a consumer whose transport is not
\* closing has its channel there and opened, whatever was closed or flushed.
ConsumerChannelOpen ==
    \A q \in DOMAIN queues : \A k \in Elements(queues[q].consumers) :
        k.conn \notin closing =>
            /\ k.chan \in DOMAIN channels[k.conn]
            /\ channels[k.conn][k.chan].state # "WAITING_OPEN"

\* A channel number is written as one byte (sender.py:239): no channel above 255
\* is ever opened, so no reply and no delivery raises on its number.
OpenChannelFitsByte ==
    \A c \in Conns : \A n \in DOMAIN channels[c] :
        channels[c][n].state # "WAITING_OPEN" => n <= MaxChannel

\* What is stored for inspection (state.py:186) is what the client published:
\* the whole body of one publication under its own header and exchange, in the
\* order of the publications of the channel, although channels interleave.
StoredAsPublished ==
    \A c \in Conns : \A i \in DOMAIN stored[c] :
        LET s == stored[c][i]
            p == published[c][s.id]
        IN  /\ s.id \in DOMAIN published[c]
            /\ s.chan = p.chan /\ s.exchange = p.exchange
            /\ s.content = [k \in 1 .. BodySize[p.msg] |-> <<s.id, k>>]
            /\ \A j \in 1 .. i - 1 : stored[c][j].chan = s.chan => stored[c][j].id < s.id

\* With nothing left to read, the channel waits for exactly the frame its client
\* has to send next: a channel never waits for content that will not come.
InStep ==
    \A c \in Conns \ closing :
        (running # c /\ buffer[c] = <<>> /\ arriving[c] = <<>>) =>
            \A n \in DOMAIN channels[c] :
                LET ch == channels[c][n] IN
                IF pending[c][n] = <<>> THEN ch.state \in {"WAITING_OPEN", "OPENED"}
                ELSE LET f == Head(pending[c][n]) IN
                     \/ f.method = "HEADER" /\ ch.state = "WAITING_HEADER"
                     \/ /\ f.method = "BODY" /\ ch.state = "WAITING_BODY"
                        /\ ch.message.id = f.id /\ Len(ch.message.content) + 1 = f.part

\* The loop gives up with frames in the buffer (protocol.py:104-110, 139) only at
\* bytes it cannot decode, after START_OK (accepted, or another method in its
\* place, which raises), or after the number of a channel to open has raised.
NothingLeftUnread ==
    \A c \in Conns \ closing :
        (running # c /\ buffer[c] # <<>>) =>
            \/ Head(buffer[c]).method = "UNDECODABLE"
            \/ parser_state[c] \in {"WAITING_START_OK", "WAITING_TUNE_OK"}
            \/ \E n \in DOMAIN channels[c] : n > MaxChannel

\* A publication that was sent to its last frame is stored in the end, unless the
\* connection closes.
PublishedIsStored ==
    \A c \in Conns : \A id \in 1 .. MaxPublished :
        (id \in DOMAIN published[c] /\ pending[c][published[c][id].chan] = <<>>)
            ~> (c \in closing \/ \E i \in DOMAIN stored[c] : stored[c][i].id = id)
=============================================================================
