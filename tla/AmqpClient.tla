----------------------------- MODULE AmqpClient -----------------------------
(***************************************************************************)
(* The other end of an AMQP connection, which is external: how a client    *)
(* lays out the frames it writes and reads those it is sent, as AMQP 0-9-1 *)
(* prescribes.  It packs values as py-amqp does, from which serialization  *)
(* was taken.  The table of content properties is that of method.py.       *)
(***************************************************************************)
EXTENDS FrameReader

-----------------------------------------------------------------------------
(* AMQP 0-9-1: the arguments of the methods, in wire order *)

Layout(class, method, format, args) ==
    [id |-> <<0, class, 0, method>>, format |-> format, args |-> args]

ClientMethod ==
    [START_OK |-> Layout(10, 11, <<"F", "s", "S", "s">>,
         <<"peer-properties", "mechanism", "response", "locale">>),
     TUNE_OK |-> Layout(10, 31, <<"B", "l", "B">>,
         <<"channel-max", "frame-max", "heartbeat">>),
     OPEN |-> Layout(10, 40, <<"s", "s", "b">>, <<"vhost", "capabilities", "insist">>),
     CLOSE |-> Layout(10, 50, <<"B", "s", "B", "B">>,
         <<"reply-code", "reply-text", "class-id", "method-id">>),
     CHANNEL_OPEN |-> Layout(20, 10, <<"s">>, <<"reserved-1">>),
     CHANNEL_CLOSE |-> Layout(20, 40, <<"B", "s", "B", "B">>,
         <<"reply-code", "reply-text", "class-id", "method-id">>),
     EXCHANGE_DECLARE |-> Layout(40, 10, <<"B", "s", "s", "b", "b", "b", "b", "b", "F">>,
         <<"reserved-1", "exchange-name", "type", "passive", "durable", "auto-delete",
           "internal", "no-wait", "arguments">>),
     QUEUE_DECLARE |-> Layout(50, 10, <<"B", "s", "b", "b", "b", "b", "b", "F">>,
         <<"reserved-1", "queue-name", "passive", "durable", "exclusive",
           "auto-delete", "no-wait", "arguments">>),
     QUEUE_BIND |-> Layout(50, 20, <<"B", "s", "s", "s", "b", "F">>,
         <<"reserved-1", "queue-name", "exchange-name", "routing-key", "no-wait",
           "arguments">>),
     BASIC_QOS |-> Layout(60, 10, <<"l", "B", "b">>,
         <<"prefetch-size", "prefetch-count", "global">>),
     BASIC_CONSUME |-> Layout(60, 20, <<"B", "s", "s", "b", "b", "b", "b", "F">>,
         <<"reserved-1", "queue-name", "consumer-tag", "no-local", "no-ack",
           "exclusive", "no-wait", "arguments">>),
     BASIC_CANCEL |-> Layout(60, 30, <<"s", "b">>, <<"consumer-tag", "no-wait">>),
     BASIC_PUBLISH |-> Layout(60, 40, <<"B", "s", "s", "b", "b">>,
         <<"reserved-1", "exchange-name", "routing-key", "mandatory", "immediate">>),
     BASIC_ACK |-> Layout(60, 80, <<"L", "b">>, <<"delivery-tag", "multiple">>),
     BASIC_NACK |-> Layout(60, 120, <<"L", "b", "b">>,
         <<"delivery-tag", "multiple", "requeue">>)]

ServerMethod ==
    [START |-> Layout(10, 10, <<"o", "o", "F", "S", "S">>,
         <<"version-major", "version-minor", "server-properties", "mechanisms", "locales">>),
     TUNE |-> Layout(10, 30, <<"B", "l", "B">>, <<"channel-max", "frame-max", "heartbeat">>),
     OPEN_OK |-> Layout(10, 41, <<"s">>, <<"reserved-1">>),
     CLOSE_OK |-> Layout(10, 51, <<>>, <<>>),
     CHANNEL_OPEN_OK |-> Layout(20, 11, <<"S">>, <<"reserved-1">>),
     CHANNEL_CLOSE_OK |-> Layout(20, 41, <<>>, <<>>),
     EXCHANGE_DECLARE_OK |-> Layout(40, 11, <<>>, <<>>),
     QUEUE_DECLARE_OK |-> Layout(50, 11, <<"s", "l", "l">>,
         <<"queue-name", "message-count", "consumer-count">>),
     QUEUE_BIND_OK |-> Layout(50, 21, <<>>, <<>>),
     BASIC_QOS_OK |-> Layout(60, 11, <<>>, <<>>),
     BASIC_CONSUME_OK |-> Layout(60, 21, <<"s">>, <<"consumer-tag">>),
     BASIC_CANCEL_OK |-> Layout(60, 31, <<"s">>, <<"consumer-tag">>),
     BASIC_DELIVER |-> Layout(60, 60, <<"s", "L", "b", "s", "s">>,
         <<"consumer-tag", "delivery-tag", "redelivered", "exchange-name",
           "routing-key">>)]
-----------------------------------------------------------------------------
(* Writing *)

ClientFrame(type, channel, payload) ==
    <<type>> \o pack(channel, 2) \o pack(Len(payload), 4) \o payload \o <<FRAME_END>>

ClientHeader(args) ==
    LET names == DOMAIN args.properties
        set == Selected(PROPERTIES, names)
    IN <<0, 60, 0, 0>> \o pack(args.body_size, 8) \o pack(Flags(PROPERTIES, names), 2)
       \o dumps([i \in DOMAIN set |-> set[i][2]],
                [i \in DOMAIN set |-> args.properties[set[i][1]]])

ClientPayload(f) ==
    CASE f.name = "HEARTBEAT" -> <<>>
      [] f.name = "HEADER"    -> ClientHeader(f.args)
      [] f.name = "BODY"      -> f.args.content
      [] f.name \in DOMAIN ClientMethod ->
            LET l == ClientMethod[f.name] IN
            l.id \o dumps(l.format, [i \in DOMAIN l.args |-> f.args[l.args[i]]])

FrameType(name) ==
    CASE name = "HEARTBEAT" -> 8
      [] name = "HEADER"    -> 2
      [] name = "BODY"      -> 3
      [] name \in DOMAIN ClientMethod -> 1

Encode(f) == ClientFrame(FrameType(f.name), f.chan, ClientPayload(f))

\* The frames that can be encoded: their values fit what they are packed into.
EncodableArgs(name, args) ==
    \/ name = "HEARTBEAT" /\ args = <<>>
    \/ /\ name = "HEADER"
       /\ args = [body_size |-> args.body_size, properties |-> args.properties]
       /\ args.body_size \in Nat /\ Fits(args.body_size, 8)
       /\ args.properties = [k \in DOMAIN args.properties |-> args.properties[k]]
       /\ \A k \in DOMAIN args.properties :
             \E n \in DOMAIN PROPERTIES :
                PROPERTIES[n][1] = k /\ Taken(PROPERTIES[n][2], args.properties[k])
    \/ name = "BODY" /\ args = [content |-> args.content] /\ args.content \in Seq(Byte)
    \/ /\ name \in DOMAIN ClientMethod
       /\ LET l == ClientMethod[name] IN
             /\ args = [k \in ToSet(l.args) |-> args[k]]
             /\ \A i \in DOMAIN l.args : Taken(l.format[i], args[l.args[i]])

Encodable(f) ==
    /\ f = [name |-> f.name, chan |-> f.chan, args |-> f.args]
    /\ f.chan \in Nat /\ Fits(f.chan, 2) /\ (f.name = "HEARTBEAT" => f.chan = 0)
    /\ EncodableArgs(f.name, f.args)
    /\ Fits(Len(ClientPayload(f)), 4)

\* What is looked at of a frame: connection.close is not decoded, and two arguments
\* of exchange.declare are decoded wrongly (method.py:213-214) and never used.
Unread == [CLOSE |-> ToSet(ClientMethod.CLOSE.args), EXCHANGE_DECLARE |-> Misplaced]

Seen(f) ==
    IF f.name \in DOMAIN Unread
    THEN [f EXCEPT !.args = [k \in DOMAIN f.args \ Unread[f.name] |-> f.args[k]]]
    ELSE f

\* The response of a START_OK: AMQPLAIN packs the fields of a table.
PLAIN == <<80>>
AMQPLAIN == <<65>>

LoginResponse(mechanism, user, password) ==
    IF mechanism = PLAIN THEN <<0>> \o user \o <<0>> \o password
    ELSE dumps(<<"s", "o", "S", "s", "o", "S">>,
               << <<76>>, Code.S, user, <<80>>, Code.S, password>>)

-----------------------------------------------------------------------------
(* Reading *)

HeardMethod(payload) ==
    LET n == CHOOSE n \in DOMAIN ServerMethod :
                 ServerMethod[n].id = Bytes(payload, 0, 4)
        l == ServerMethod[n]
        values == loads(l.format, payload, 4)
    IN [name |-> n, args |-> [i \in ToSet(l.args) \ {"reserved-1"} |->
                                  values[CHOOSE k \in DOMAIN l.args : l.args[k] = i]]]

HeardFrame(bytes) ==
    LET payload == Payload(bytes)
        f == CASE bytes[1] = 1 -> HeardMethod(payload)
               [] bytes[1] = 2 -> Header(payload)
               [] bytes[1] = 3 -> Body(payload)
               [] bytes[1] = 8 -> [name |-> "HEARTBEAT", args |-> <<>>]
    IN [name |-> f.name, chan |-> unpack(Bytes(bytes, 1, 2)), args |-> f.args]

\* The frames of a stream, up to the bytes that are not one or not yet.  n: the bytes
\* that are left.
Heard(bytes) ==
    LET heard[n \in 0 .. Len(bytes)] ==
            LET rest == SubSeq(bytes, Len(bytes) - n + 1, Len(bytes)) IN
            IF n < FRAME_HEADER_SIZE THEN <<>>
            ELSE IF frame_size(rest) > n \/ rest[frame_size(rest)] # FRAME_END THEN <<>>
            ELSE <<HeardFrame(rest)>> \o heard[n - frame_size(rest)]
    IN heard[Len(bytes)]
=============================================================================
