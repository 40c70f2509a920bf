------------------------------- MODULE MCWire -------------------------------
(* The bytes of one connection, on frames that reach each format and boundary. *)
EXTENDS Wire

\* Texts of one byte, and one with a byte above 127.
a == <<97>>
b == <<98>>
e == <<195, 169>>

On(name, chan, args) == [name |-> name, chan |-> chan, args |-> args]

\* Tables with every type of value, nested, empty, with a key twice; integers at
\* the bounds of their widths.
Nested ==
    << <<a, Value("dict", << <<b, Value("bool", TRUE)>>, <<e, Value("None", <<>>)>> >>)>>,
       <<b, Value("list", <<Value("int", -1), Value("str", e), Value("list", <<>>)>>)>>,
       <<e, Value("int", 2147483647)>>, <<a \o b, Value("int", -2147483647 - 1)>>,
       <<b \o a, Value("float", <<64, 9, 33, 251, 84, 68, 45, 206>>)>> >>

\* A user whose length is not a byte of a text.
LongText == [i \in 1 .. 128 |-> 97]

MCLogins == {Login(a, b), Login(e, <<>>), Login(LongText, <<>>), Login(<<>>, LongText)}

Start(mechanism, l, table) ==
    On("START_OK", 0, ("peer-properties" :> table @@ "mechanism" :> mechanism
        @@ "response" :> LoginResponse(mechanism, l.user, l.password) @@ "locale" :> a))

Close(name, chan) ==
    On(name, chan, ("reply-code" :> 200 @@ "reply-text" :> a @@ "class-id" :> 0
                    @@ "method-id" :> 0))

Exchange(bits) ==
    On("EXCHANGE_DECLARE", 1, ("reserved-1" :> 0 @@ "exchange-name" :> a @@ "type" :> b
        @@ "passive" :> bits[1] @@ "durable" :> bits[2] @@ "auto-delete" :> bits[3]
        @@ "internal" :> bits[4] @@ "no-wait" :> bits[5] @@ "arguments" :> Nested))

Queue(bits, table) ==
    On("QUEUE_DECLARE", 1, ("reserved-1" :> 0 @@ "queue-name" :> e @@ "passive" :> bits[1]
        @@ "durable" :> bits[2] @@ "exclusive" :> bits[3] @@ "auto-delete" :> bits[4]
        @@ "no-wait" :> bits[5] @@ "arguments" :> table))

Nack(tag, multiple, requeue) ==
    On("BASIC_NACK", 1, ("delivery-tag" :> tag @@ "multiple" :> multiple @@ "requeue" :> requeue))

T == TRUE
F == FALSE

Anonymous == <<88>>

\* A login by PLAIN that need not have three parts, or be text.
WithResponse(response) ==
    [Start(PLAIN, Login(a, b), <<>>) EXCEPT !.args["response"] = response]

TuneOkFrame ==
    On("TUNE_OK", 0, ("channel-max" :> 65535 @@ "frame-max" :> 131072 @@ "heartbeat" :> 10))
OpenFrame == On("OPEN", 0, ("vhost" :> a @@ "capabilities" :> <<>> @@ "insist" :> F))
HeartBeatFrame == On("HEARTBEAT", 0, <<>>)
BodyFrame == On("BODY", 1, [content |-> <<206, 1>>])

\* 206 ends a frame: it occurs in sizes, numbers and bodies too.
MCFrames ==
    << Start(PLAIN, Login(a, b), Nested), Start(AMQPLAIN, Login(a, b), <<>>),
       Start(PLAIN, Login(e, <<>>), <<>>), Start(AMQPLAIN, Login(e, <<>>), <<>>),
       Start(PLAIN, Login(LongText, <<>>), <<>>), Start(AMQPLAIN, Login(<<>>, LongText), <<>>),
       Start(Anonymous, Login(a, b), <<>>),
       WithResponse(<<>>), WithResponse(<<0, 0, 97, 0>>), WithResponse(<<0, 195, 0, 97>>),
       TuneOkFrame, OpenFrame, HeartBeatFrame, Close("CLOSE", 0),
       On("CHANNEL_OPEN", 1, ("reserved-1" :> <<>>)),
       On("CHANNEL_OPEN", 255, ("reserved-1" :> <<>>)),
       On("CHANNEL_OPEN", 256, ("reserved-1" :> <<>>)),
       Close("CHANNEL_CLOSE", 206),
       On("BASIC_QOS", 1, ("prefetch-size" :> 0 @@ "prefetch-count" :> 52942 @@ "global" :> T)),
       Exchange(<<F, T, F, F, T>>),
       Queue(<<F, T, F, T, F>>, << <<a, Value("int", 206)>> >>),
       Queue(<<T, F, T, F, T>>, <<>>),
       On("QUEUE_BIND", 1, ("reserved-1" :> 0 @@ "queue-name" :> a @@ "exchange-name" :> b
                            @@ "routing-key" :> e @@ "no-wait" :> F @@ "arguments" :> <<>>)),
       On("BASIC_CONSUME", 2, ("reserved-1" :> 0 @@ "queue-name" :> a @@ "consumer-tag" :> e
                               @@ "no-local" :> F @@ "no-ack" :> T @@ "exclusive" :> F
                               @@ "no-wait" :> T @@ "arguments" :> <<>>)),
       On("BASIC_CANCEL", 2, ("consumer-tag" :> e @@ "no-wait" :> F)),
       On("BASIC_PUBLISH", 1, ("reserved-1" :> 0 @@ "exchange-name" :> a @@ "routing-key" :> b
                               @@ "mandatory" :> F @@ "immediate" :> T)),
       On("HEADER", 1, [body_size |-> 206, properties |->
           ("content_type" :> a @@ "delivery_mode" :> 2 @@ "timestamp" :> 206 @@ "cluster_id" :> b)]),
       On("HEADER", 1, [body_size |-> 2, properties |->
           ("application_headers" :> Nested @@ "priority" :> 9)]),
       BodyFrame, On("BODY", 1, [content |-> <<>>]),
       On("BASIC_ACK", 1, ("delivery-tag" :> 2147483647 @@ "multiple" :> F)),
       Nack(1, F, T), Nack(1, T, F), Nack(206, T, T), Nack(0, F, F) >>

Message(headers, body) ==
    [chan |-> 1, tag |-> a, dtag |-> 206, exchange |-> b, headers |-> headers, body |-> body]

\* The header of the example of README.md:103, which is no property of a message and
\* is left out; delivery_mode and priority, numbers in JSON and texts in HTTP headers.
MCPosts ==
    << Message(("x-delay" :> Value("str", <<50>>)), <<206>>),
       Message(("content_type" :> Value("str", a) @@ "reply_to" :> Value("None", <<>>)), <<>>),
       Message(("delivery_mode" :> Value("int", 2) @@ "priority" :> Value("int", 255)
                @@ "timestamp" :> Value("int", 206)
                @@ "application_headers" :> Value("dict", Nested)), <<1, 2>>),
       Message(("delivery_mode" :> Value("str", <<50>>)), <<1>>),
       Message(("priority" :> Value("int", 256)), <<1>>) >>

\* Openings: a whole one, those that go wrong, and what comes behind a close.
ShutFrame == Close("CHANNEL_CLOSE", 206)
StartFrame == Start(PLAIN, Login(a, b), Nested)
Openings ==
    { <<StartFrame, TuneOkFrame, OpenFrame, HeartBeatFrame>>,
      <<StartFrame, TuneOkFrame, OpenFrame, TuneOkFrame>>, <<StartFrame, OpenFrame>>,
      <<StartFrame, TuneOkFrame, TuneOkFrame>>, <<StartFrame, TuneOkFrame, ShutFrame, OpenFrame>>,
      <<ShutFrame, StartFrame>>, <<ShutFrame, Close("CLOSE", 0)>>,
      <<ShutFrame, On("CHANNEL_OPEN", 1, ("reserved-1" :> <<>>))>> }
IsOpening(s) == Len(s) > 1 /\ \E o \in Openings : IsPrefix(s, o)

\* Frames are sent alone, before a short one, or as an opening.  An opening and the
\* longest logins come in whole; the others are cut anywhere.  As the network may
\* hold bytes back, nothing is lost when no frame is sent while one comes in.
MaySend ==
    \/ sent = <<>>
    \/ /\ Len(sent) = 1 \/ IsOpening(sent)
       /\ Last(said).on # "post" /\ (buffer = <<>> \/ ended = "raise")

Whole == Len(stream) > 128 \/ IsOpening(sent)

\* Deliveries happen between frames, and beside one frame at most.
MCNext ==
    \/ /\ MaySend
       /\ ClientSend
       /\ \/ sent = <<>>
          \/ Len(sent) = 1 /\ Last(sent') \in {HeartBeatFrame, BodyFrame}
          \/ IsOpening(sent')
    \/ data_received /\ (Whole => stream' = <<>>)
    \/ Turn
    \/ Len(sent) <= 1 /\ Len(got) = Len(sent) /\ Post
MCSpec == WireInit /\ [][MCNext]_wireVars
MCFairSpec == MCSpec /\ WireFairness
=============================================================================
