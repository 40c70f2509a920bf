-------------------------------- MODULE Wire --------------------------------
(***************************************************************************)
(* The bytes of one AMQP connection, once it has been greeted: the client  *)
(* writes frames, the network cuts them anywhere, the loop of              *)
(* TrackerProtocol.data_received (protocol.py) finds them again, and the   *)
(* handlers write replies and deliveries.                                  *)
(*                                                                         *)
(* TrackerProtocol starts from frames; this module shows that it may.  In  *)
(* return, what the channels and the broker tables decide, whether a login *)
(* is accepted or a frame of a channel answered, is left open here: it     *)
(* depends on the states of TrackerProtocol.                               *)
(*                                                                         *)
(* The client is external.  It writes and reads by the layouts of AMQP.    *)
(***************************************************************************)
EXTENDS Sender, AmqpClient

CONSTANTS
    Frames,     \* the frames the client may send, listed
    Posts,      \* deliveries the test may cause, listed
    Logins,     \* users with their passwords
    MaxSent,    \* bound: frames sent
    MaxPosts    \* bound: deliveries

\* The values of headers, as JSON or HTTP gave them.
Given ==
    Scalars \cup Typed("dict", Dicts(Items[MaxDepth]))
    \cup Typed("list", Lists(Items[MaxDepth]))

\* A str that no strict encoder takes: byte 237 begins the surrogates, from 160 on.
Surrogates(s) == \E i \in DOMAIN s : s[i] = 237 /\ i < Len(s) /\ s[i + 1] >= 160

\* Users and passwords; NUL separates the parts of PLAIN.
Credential == {k \in Keys : 0 \notin ToSet(k) /\ ~Surrogates(k)}

\* Channels and names of deliveries come from frames; the size of a frame takes four
\* bytes; AMQPLAIN packs a user and a password.
ASSUME WireAssumption ==
    /\ MaxSent \in Nat /\ MaxPosts \in Nat
    /\ \A n \in DOMAIN Frames : Encodable(Frames[n])
    /\ \A n \in DOMAIN Frames : LET f == Frames[n] IN
          f.name = "START_OK" /\ f.args["mechanism"] = AMQPLAIN =>
              \E l \in Logins : f.args["response"] = LoginResponse(AMQPLAIN, l.user, l.password)
    /\ \A n \in DOMAIN Posts : LET p == Posts[n] IN
          /\ p.chan \in Byte /\ p.tag \in Keys /\ p.exchange \in Keys
          /\ p.dtag \in Nat /\ Fits(p.dtag, 8)
          /\ p.body \in Seq(Byte) /\ Fits(Len(p.body), 4)
          /\ \A k \in DOMAIN p.headers : p.headers[k] \in Given
          /\ HeaderRaises(p.headers)
             \/ Fits(Len(ContentHeader(p.headers, Len(p.body))), 4)
    /\ Logins \subseteq [user : Credential, password : Credential]

VARIABLES
    sent,       \* client: the frames it has sent
    stream,     \* bytes written by the client and not received yet
    buffer,     \* TrackerProtocol._buffer
    parser_state,   \* TrackerProtocol._parser_state
    closing,    \* transport.is_closing()
    running,    \* data_received is under way
    ended,      \* history: how its loop ended last
    got,        \* frames the loop has found
    outbound,   \* bytes written to the transport
    said        \* what they stand for: frames answered and deliveries, in order

loopVars == <<buffer, parser_state, closing, running, ended, got>>
outVars == <<outbound, said>>
wireVars == <<sent, stream, loopVars, outVars>>

-----------------------------------------------------------------------------
(* The client, and the network *)

ClientSend ==
    /\ Len(sent) < MaxSent
    /\ \E n \in DOMAIN Frames :
          /\ sent' = Append(sent, Frames[n])
          /\ stream' = stream \o Encode(Frames[n])
    /\ UNCHANGED <<loopVars, outVars>>

-----------------------------------------------------------------------------
(* data_received *)

\* A transport that is closing is not read any more.
data_received ==
    /\ ~running /\ ~closing
    /\ \E n \in 1 .. Len(stream) :
          /\ buffer' = buffer \o SubSeq(stream, 1, n)
          /\ stream' = SubSeq(stream, n + 1, Len(stream))
    /\ running' = TRUE
    /\ UNCHANGED <<sent, parser_state, closing, ended, got, outVars>>

\* What the branch for the frame writes.  declare_queue always counts 0 and 0.
reply(f) ==
    CASE f.name = "HEARTBEAT"        -> send_heartbeat
      [] f.name = "START_OK"         -> send_connection_tune
      [] f.name = "OPEN"             -> send_connection_ok
      [] f.name = "CLOSE"            -> send_connection_close_ok
      [] f.name = "CHANNEL_OPEN"     -> send_channel_open_ok(f.chan)
      [] f.name = "CHANNEL_CLOSE"    -> send_channel_close_ok(f.chan)
      [] f.name = "EXCHANGE_DECLARE" -> send_exchange_declare_ok(f.chan)
      [] f.name = "QUEUE_DECLARE"    ->
            send_queue_declare_ok(f.chan, f.args["queue-name"], 0, 0)
      [] f.name = "QUEUE_BIND"       -> send_queue_bind_ok(f.chan)
      [] f.name = "BASIC_QOS"        -> send_basic_qos_ok(f.chan)
      [] f.name = "BASIC_CONSUME"    ->
            send_basic_consume_ok(f.chan, f.args["consumer-tag"])
      [] f.name = "BASIC_CANCEL"     ->
            send_basic_cancel_ok(f.chan, f.args["consumer-tag"])

Replied == {"HEARTBEAT", "START_OK", "OPEN", "CLOSE", "CHANNEL_OPEN", "CHANNEL_CLOSE",
            "EXCHANGE_DECLARE", "QUEUE_DECLARE", "QUEUE_BIND", "BASIC_QOS",
            "BASIC_CONSUME", "BASIC_CANCEL"}

\* Regression: the end octet of the frame stays in the buffer.
Rest_with_end(f) == SubSeq(buffer, f.size, Len(buffer))

Rest(f) == SubSeq(buffer, f.size + 1, Len(buffer))

\* Regression: the loop takes one frame of what was received.
GoesOn_once(rest) == FALSE

\* while len(self._buffer) > 0
GoesOn(rest) == rest # <<>>

\* The three ways out of a turn.  What `return' or an exception leaves in the buffer
\* waits for the next data_received.  After an exception asyncio closes the transport
\* since Python 3.7; before, it only reports.
Continue == running' = GoesOn(buffer') /\ ended' = "no frame"

Return == running' = FALSE /\ ended' = "return"

Raise == running' = FALSE /\ ended' = "raise" /\ closing' \in {closing, TRUE}

\* A transport that is closing takes bytes or drops them, as it still has others to
\* send or not.
Write(f) ==
    \/ /\ outbound' = outbound \o reply(f)
       /\ said' = Append(said, [on |-> "reply", to |-> Last(got')])
    \/ closing /\ UNCHANGED outVars

-----------------------------------------------------------------------------
(* Credentials *)

Login(user, password) == [user |-> user, password |-> password]

\* What comes of a response that holds none: False, or an exception.
Refused == [name |-> "False"]
ValueError == [name |-> "ValueError"]

\* response.split('\x00', 3), into three names.
SplitPlain(response) ==
    LET nuls == {i \in DOMAIN response : response[i] = 0} IN
    IF Cardinality(nuls) # 2 THEN ValueError
    ELSE Login(SubSeq(response, Min(nuls) + 1, Max(nuls) - 1),
               SubSeq(response, Max(nuls) + 1, Len(response)))

AmqplainFields(response) == loads(<<"s", "o", "S", "s", "o", "S">>, response, 0)

\* Regression: the fields of AMQPLAIN are counted from the other end.
check_start_ok_swapped(args) ==
    LET response == args["response"]
        fields == AmqplainFields(response)
    IN
    CASE args["mechanism"] = PLAIN -> SplitPlain(response)
      [] args["mechanism"] = AMQPLAIN /\ Surrogates(response) -> ValueError
      [] args["mechanism"] = AMQPLAIN /\ ~Surrogates(response) -> Login(fields[6], fields[3])
      [] OTHER -> Refused

\* The credentials that are looked up.  PLAIN has three parts between NULs, AMQPLAIN
\* six fields of which the names are not looked at; its response is encoded again.
check_start_ok(args) ==
    LET response == args["response"]
        fields == AmqplainFields(response)
    IN
    CASE args["mechanism"] = PLAIN -> SplitPlain(response)
      [] args["mechanism"] = AMQPLAIN /\ Surrogates(response) -> ValueError
      [] args["mechanism"] = AMQPLAIN /\ ~Surrogates(response) -> Login(fields[3], fields[6])
      [] OTHER -> Refused

-----------------------------------------------------------------------------
(* The branches for a frame *)

HeartBeat(f) ==
    /\ f.name = "HEARTBEAT"
    /\ Write(f)
    /\ Continue
    /\ UNCHANGED <<parser_state, closing>>

\* A channel is opened, answers, is closed with the connection, or passes over the
\* frame; a number above a byte raises in place of the reply to the first frame.
ChannelFrame(f) ==
    /\ f.chan # 0
    /\ UNCHANGED parser_state
    /\ \/ /\ f.chan \in Byte /\ f.name # "CHANNEL_CLOSE"
          /\ Continue /\ UNCHANGED <<closing, outVars>>
       \/ /\ f.name # "CHANNEL_OPEN"
          /\ Continue /\ closing' = TRUE /\ UNCHANGED outVars
       \/ /\ f.chan \in Byte /\ f.name \in Replied
          /\ Continue /\ Write(f)
          /\ CASE f.name = "CHANNEL_CLOSE"    -> closing' = TRUE
               [] f.name = "EXCHANGE_DECLARE" -> closing' \in {closing, TRUE}
               [] OTHER                       -> UNCHANGED closing
       \/ /\ f.chan \notin Byte /\ f.name = "CHANNEL_OPEN"
          /\ Raise /\ UNCHANGED outVars

ConnectionClose(f) ==
    /\ f.name = "CLOSE" /\ f.chan = 0
    /\ Write(f)
    /\ closing' = TRUE
    /\ Return
    /\ UNCHANGED parser_state

OnConnection(f, state) ==
    f.chan = 0 /\ f.name \notin {"HEARTBEAT", "CLOSE"} /\ parser_state = state

\* Another method has no mechanism.  The branch returns, whatever comes of the login.
StartOk(f) ==
    LET login == IF f.name = "START_OK" THEN check_start_ok(f.args) ELSE ValueError IN
    /\ OnConnection(f, "WAITING_START_OK")
    /\ \/ /\ login = ValueError
          /\ Raise /\ UNCHANGED <<parser_state, outVars>>
       \/ /\ login # ValueError
          /\ Return /\ closing' = TRUE /\ UNCHANGED <<parser_state, outVars>>
       \/ /\ login \notin {ValueError, Refused}
          /\ Write(f)
          /\ parser_state' = "WAITING_TUNE_OK"
          /\ Return /\ UNCHANGED closing

Unexpected == Return /\ closing' = TRUE /\ UNCHANGED <<parser_state, outVars>>

TuneOk(f) ==
    /\ OnConnection(f, "WAITING_TUNE_OK")
    /\ IF f.name # "TUNE_OK" THEN Unexpected
       ELSE /\ parser_state' = "WAITING_OPEN"
            /\ Continue /\ UNCHANGED <<closing, outVars>>

\* Regression: a return where the loop should go on with the next frame.
Open_returns(f) ==
    /\ OnConnection(f, "WAITING_OPEN")
    /\ IF f.name # "OPEN" THEN Unexpected
       ELSE /\ Write(f)
            /\ parser_state' = "OPENED"
            /\ Return /\ UNCHANGED closing

Open(f) ==
    /\ OnConnection(f, "WAITING_OPEN")
    /\ IF f.name # "OPEN" THEN Unexpected
       ELSE /\ Write(f)
            /\ parser_state' = "OPENED"
            /\ Continue /\ UNCHANGED closing

ConnectionIgnored(f) ==
    /\ OnConnection(f, "OPENED")
    /\ Continue
    /\ UNCHANGED <<parser_state, closing, outVars>>

\* A turn of the loop.  Without a frame, or when read_frame raises, the bytes stay.
Turn ==
    /\ running
    /\ \E f \in {read_frame(buffer)} :
       CASE f.name = "None" ->
               /\ running' = FALSE /\ ended' = "no frame"
               /\ UNCHANGED <<buffer, parser_state, closing, got, outVars>>
         [] f.name \in {"InvalidFrameError", "UnicodeDecodeError"} ->
               Raise /\ UNCHANGED <<buffer, parser_state, got, outVars>>
         [] OTHER ->
               /\ buffer' = Rest(f)
               /\ got' = Append(got, [name |-> f.name, chan |-> f.chan, args |-> f.args])
               /\ \/ HeartBeat(f) \/ ChannelFrame(f) \/ ConnectionClose(f)
                  \/ StartOk(f) \/ TuneOk(f) \/ Open(f) \/ ConnectionIgnored(f)
    /\ UNCHANGED <<sent, stream>>

\* State.publish_message*, on behalf of an HTTP request; closing transports are
\* passed over.
Post ==
    /\ ~running /\ ~closing
    /\ Len(SelectSeq(said, LAMBDA s : s.on = "post")) < MaxPosts
    /\ \E n \in DOMAIN Posts :
          LET p == Posts[n] IN
          /\ outbound' = outbound \o push_message(p.headers, p.body, p.chan, p.tag,
                                                  p.dtag, p.exchange)
          /\ said' = Append(said, [on |-> "post", post |-> p])
    /\ UNCHANGED <<sent, stream, loopVars>>

WireInit ==
    /\ sent = <<>> /\ stream = <<>> /\ buffer = <<>> /\ got = <<>>
    /\ parser_state = "WAITING_START_OK" /\ closing = FALSE
    /\ running = FALSE /\ ended = "no frame"
    /\ outbound = send_connection_start
    /\ said = <<[on |-> "start"]>>

WireNext == ClientSend \/ data_received \/ Turn \/ Post

\* A readable socket is served, and a loop under way goes on: weak fairness of Turn,
\* which is enabled as long as the loop runs.
WireFairness ==
    /\ WF_wireVars(data_received)
    /\ []<>~running \/ []<><<Turn>>_wireVars

WireSpec == WireInit /\ [][WireNext]_wireVars /\ WireFairness

-----------------------------------------------------------------------------
(* Properties *)

\* Neither the loop nor the network loses or moves a byte: what is in flight is
\* the frames not found yet, the first of them in part perhaps.
WireTypeOK ==
    /\ Len(got) <= Len(sent)
    /\ buffer \o stream =
           FlattenSeq([n \in 1 .. Len(sent) - Len(got) |-> Encode(sent[Len(got) + n])])
    /\ parser_state \in {"WAITING_START_OK", "WAITING_TUNE_OK", "WAITING_OPEN", "OPENED"}
    /\ outbound \in Seq(Byte) /\ running \in BOOLEAN /\ closing \in BOOLEAN
    /\ ended \in {"no frame", "return", "raise"}

\* Bytes that make up a frame are not left in the buffer of an open connection
\* (protocol.py:103-160), but for these: what comes behind the login, whose branch
\* returns; and what an exception leaves behind, of a text that does not decode, of
\* a first frame that is no login or has no three parts, or of the number of a
\* channel to open.
WholeFramesTaken ==
    (~running /\ ~closing) =>
        \/ /\ ended = "return"
           /\ parser_state = "WAITING_TUNE_OK" /\ Last(got).name = "START_OK"
        \/ /\ ended = "raise" /\ got # <<>>
           /\ \/ parser_state = "WAITING_START_OK" /\ Last(got).chan = 0
              \/ Last(got).name = "CHANNEL_OPEN" /\ Last(got).chan \notin Byte
        \/ \E f \in {read_frame(buffer)} :
               f = NoFrame \/ (f = UnicodeDecodeError /\ ended = "raise")

SeenAll(s) == [n \in DOMAIN s |-> Seen(s[n])]

Fifo == INSTANCE FrameFifo
            WITH Frames <- SeenAll(Frames),
                 queue <- SeenAll(SubSeq(sent, Len(got) + 1, Len(sent))),
                 delivered <- SeenAll(got)

\* However the bytes are cut (protocol.py:103-110, frame.py:22-85), the handlers get
\* the client's frames with its arguments, in order.
FramesInOrder == Fifo!FifoSafety

\* Each frame that is sent comes in the end (protocol.py:103-160), unless the
\* connection closes, or all bytes have come and the loop that had them has returned
\* or raised: WholeFramesTaken tells where.
FramesArrive ==
    \A n \in 1 .. MaxSent :
        Len(sent) >= n ~>
            \/ Len(got) >= n \/ closing
            \/ ~running /\ stream = <<>> /\ ended \in {"return", "raise"}

\* The login of the client in a START_OK.
Carries(f, l) ==
    /\ f.name = "START_OK" /\ f.args["mechanism"] \in {PLAIN, AMQPLAIN}
    /\ f.args["response"] = LoginResponse(f.args["mechanism"], l.user, l.password)

\* Whatever else a login carries, the credentials looked up (protocol.py:181-193)
\* are those of the client, by either mechanism.  It fails to be read by AMQPLAIN
\* only, for a user or a password of 128 bytes or more: the response is decoded as
\* text (serialization.py:282), and such a length is none.
LoginAsSent ==
    /\ \A n \in DOMAIN got : \A l \in Logins :
          Carries(sent[n], l) => check_start_ok(got[n].args) = l
    /\ (ended = "raise" /\ ~running /\ read_frame(buffer) = UnicodeDecodeError) =>
          LET f == sent[Len(got) + 1] IN
          \A l \in Logins : Carries(f, l) =>
              /\ f.args["mechanism"] = AMQPLAIN
              /\ Len(l.user) >= 128 \/ Len(l.password) >= 128

\* What AMQP expects in answer to a frame.
ConfirmedBy ==
    [HEARTBEAT |-> "HEARTBEAT", START_OK |-> "TUNE", OPEN |-> "OPEN_OK", CLOSE |-> "CLOSE_OK",
     CHANNEL_OPEN |-> "CHANNEL_OPEN_OK", CHANNEL_CLOSE |-> "CHANNEL_CLOSE_OK",
     EXCHANGE_DECLARE |-> "EXCHANGE_DECLARE_OK", QUEUE_DECLARE |-> "QUEUE_DECLARE_OK",
     QUEUE_BIND |-> "QUEUE_BIND_OK", BASIC_QOS |-> "BASIC_QOS_OK",
     BASIC_CONSUME |-> "BASIC_CONSUME_OK", BASIC_CANCEL |-> "BASIC_CANCEL_OK"]

\* Methods of the connection are on channel 0.
OfConnection == {"HEARTBEAT", "START_OK", "OPEN", "CLOSE"}

\* The arguments common to both are the frame's own.
Answer(f, a) ==
    CASE a \in {"queue-name", "consumer-tag"}      -> f.args[a]
      [] a \in {"message-count", "consumer-count"} -> 0
      [] a = "channel-max"                         -> 0
      [] a = "frame-max"                           -> 131072
      [] a = "heartbeat"                           -> 10

Confirmation(f) ==
    LET name == ConfirmedBy[f.name]
    IN [name |-> name,
        chan |-> IF f.name \in OfConnection THEN 0 ELSE f.chan,
        args |-> IF name = "HEARTBEAT" THEN <<>>
                 ELSE [a \in ToSet(ServerMethod[name].args) \ {"reserved-1"} |->
                          Answer(f, a)]]

\* What a delivery comes with.
Label(p, a) ==
    CASE a = "consumer-tag"  -> p.tag
      [] a = "delivery-tag"  -> p.dtag
      [] a = "redelivered"   -> FALSE
      [] a = "exchange-name" -> p.exchange
      [] a = "routing-key"   -> <<>>

Delivery(p) ==
    <<[name |-> "BASIC_DELIVER", chan |-> p.chan,
       args |-> [a \in ToSet(ServerMethod["BASIC_DELIVER"].args) |-> Label(p, a)]]>>
    \o IF HeaderRaises(p.headers) THEN <<>>
       ELSE <<[name |-> "HEADER", chan |-> p.chan,
               args |-> [body_size |-> Len(p.body),
                         properties |-> [k \in {q[1] : q \in ToSet(Kept(p.headers))} |->
                                             p.headers[k][2]]]],
              [name |-> "BODY", chan |-> p.chan, args |-> [content |-> p.body]]>>

Meant(s) ==
    CASE s.on = "start" -> <<>>
      [] s.on = "reply" -> <<Confirmation(s.to)>>
      [] s.on = "post"  -> Delivery(s.post)

\* A header that cannot be packed leaves three bytes of a frame behind a whole
\* basic.deliver (sender.py:498-518): from there on the stream makes no sense.
Breaks(s) == s.on = "post" /\ HeaderRaises(s.post.headers)

\* The client hears what the handlers said, to the last value, up to the first
\* delivery that breaks the stream; and nothing else unless there is one.
HeardAsSaid ==
    LET cut == SelectInSeq(said, Breaks)
        whole == IF cut = 0 THEN said ELSE SubSeq(said, 1, cut)
        meant == FlattenSeq([n \in DOMAIN whole |-> Meant(whole[n])])
    IN \E heard \in {Tail(Heard(outbound))} :
           IF cut = 0 THEN heard = meant ELSE IsPrefix(meant, heard)
=============================================================================
