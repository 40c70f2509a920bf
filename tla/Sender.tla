------------------------------- MODULE Sender -------------------------------
(***************************************************************************)
(* sender.py: the bytes that each send_* writes to the transport.  A reply *)
(* is written in several transport.write calls of one handler, which here  *)
(* are joined.  Texts that nobody reads back are one byte long.            *)
(***************************************************************************)
EXTENDS FrameReader

\* A frame: its type, its channel in one byte, the size, the payload, the end.
Frame(type, channel, payload) ==
    <<type, 0, channel>> \o pack(Len(payload), 4) \o payload \o <<FRAME_END>>

Reply(channel, class, method, arguments) ==
    Frame(1, channel, <<0, class, 0, method>> \o arguments)

send_heartbeat == Frame(8, 0, <<>>)

\* 'capabilities': a table of booleans; the others are strings.
peer_properties ==
    << << <<99>>, Value("dict", << << <<110>>, Value("bool", TRUE)>>,
                                   << <<112>>, Value("bool", TRUE)>> >>)>>,
       << <<105>>, Value("str", <<108>>)>>, << <<118>>, Value("str", <<51>>)>> >>

send_connection_start ==
    Reply(0, 10, 10, dumps(<<"o", "o", "F", "S", "S">>,
                           <<0, 9, peer_properties, <<80, 65>>, <<101>> >>))

send_connection_close_ok == Reply(0, 10, 51, <<>>)

send_connection_tune == Reply(0, 10, 30, dumps(<<"B", "l", "B">>, <<0, 131072, 10>>))

send_connection_ok == Reply(0, 10, 41, dumps(<<"s">>, << <<>> >>))

send_channel_open_ok(channel) == Reply(channel, 20, 11, dumps(<<"S">>, << <<52, 50>> >>))

send_channel_close_ok(channel) == Reply(channel, 20, 41, <<>>)

send_exchange_declare_ok(channel) == Reply(channel, 40, 11, <<>>)

send_queue_declare_ok(channel, queue_name, message_count, consumer_count) ==
    Reply(channel, 50, 11, dumps(<<"s", "l", "l">>,
                                 <<queue_name, message_count, consumer_count>>))

send_queue_bind_ok(channel) == Reply(channel, 50, 21, <<>>)

send_basic_qos_ok(channel) == Reply(channel, 60, 11, <<>>)

send_basic_consume_ok(channel, consumer_tag) ==
    Reply(channel, 60, 21, dumps(<<"s">>, <<consumer_tag>>))

send_basic_cancel_ok(channel, consumer_tag) ==
    Reply(channel, 60, 31, dumps(<<"s">>, <<consumer_tag>>))

send_basic_deliver(channel, tag, dtag, redelivered, exchange_name, routing_key) ==
    Reply(channel, 60, 60, dumps(<<"s", "L", "b", "s", "s">>,
        <<tag, dtag, redelivered, exchange_name, routing_key>>))

\* The values that dumps replaces by an empty text or table.
Empty(x) == x[1] \in {"None", "str", "list", "dict"} /\ x[2] = <<>>

\* Whether dumps takes the value of a header, as JSON or HTTP gave it.  Booleans in
\* place of a number, false and 0 in place of a text or a table are left out.
Packs(format, x) ==
    CASE format = "s" -> Empty(x) \/ (x[1] = "str" /\ Len(x[2]) \in Byte)
      [] format = "F" -> Empty(x) \/ x[1] = "dict"
      [] format = "o" -> x[1] = "int" /\ x[2] \in Byte
      [] format = "L" -> x[1] = "int" /\ x[2] >= 0

\* Regression: the order of the two tables differs.
sender_PROPERTIES_swapped ==
    << <<"content_type", "s", 32768>>, <<"content_encoding", "s", 16384>>,
       <<"application_headers", "F", 8192>>, <<"priority", "o", 2048>>,
       <<"delivery_mode", "o", 4096>>, <<"correlation_id", "s", 1024>>,
       <<"reply_to", "s", 512>>, <<"expiration", "s", 256>>, <<"message_id", "s", 128>>,
       <<"timestamp", "L", 64>>, <<"type", "s", 32>>, <<"user_id", "s", 16>>,
       <<"app_id", "s", 8>>, <<"cluster_id", "s", 4>> >>

\* PROPERTIES of sender.py, its own copy of the table.
sender_PROPERTIES ==
    << <<"content_type", "s", 32768>>, <<"content_encoding", "s", 16384>>,
       <<"application_headers", "F", 8192>>, <<"delivery_mode", "o", 4096>>,
       <<"priority", "o", 2048>>, <<"correlation_id", "s", 1024>>,
       <<"reply_to", "s", 512>>, <<"expiration", "s", 256>>, <<"message_id", "s", 128>>,
       <<"timestamp", "L", 64>>, <<"type", "s", 32>>, <<"user_id", "s", 16>>,
       <<"app_id", "s", 8>>, <<"cluster_id", "s", 4>> >>

\* Names that are not properties of a content header are passed over.
Kept(properties) == Selected(sender_PROPERTIES, DOMAIN properties)

ContentHeader(properties, body_size) ==
    LET kept == Kept(properties)
        property_flags == Flags(sender_PROPERTIES, DOMAIN properties)
    IN dumps(<<"B", "B", "L", "B">> \o [i \in DOMAIN kept |-> kept[i][2]],
             <<60, 0, body_size, property_flags>>
             \o [i \in DOMAIN kept |-> properties[kept[i][1]][2]])

\* The type and channel of the frame are written before dumps may raise.
HeaderRaises(properties) ==
    \E p \in ToSet(Kept(properties)) : ~Packs(p[2], properties[p[1]])

send_content_header(channel, properties, body_size) ==
    IF HeaderRaises(properties) THEN <<2, 0, channel>>
    ELSE Frame(2, channel, ContentHeader(properties, body_size))

send_content_body(channel, body) == Frame(3, channel, body)

\* TrackerProtocol.push_message: an exception of the header leaves out the body.
push_message(headers, message, channel, consumer_tag, delivery_tag, exchange_name) ==
    send_basic_deliver(channel, consumer_tag, delivery_tag, FALSE, exchange_name, <<>>)
    \o send_content_header(channel, headers, Len(message))
    \o (IF HeaderRaises(headers) THEN <<>> ELSE send_content_body(channel, message))
=============================================================================
