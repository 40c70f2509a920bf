---------------------------- MODULE FrameReader ----------------------------
(***************************************************************************)
(* From bytes to decoded frames: read_frame (frame.py) and the decoders of *)
(* method.py.  A decoded frame is [name, chan, args, size]; args are the   *)
(* properties of a method, the body size and the properties of a header,   *)
(* the content of a body.                                                  *)
(***************************************************************************)
EXTENDS Serialization

FRAME_HEADER_SIZE == 7
FRAME_END_SIZE == 1
FRAME_END == 206

NoFrame == [name |-> "None"]
InvalidFrame == [name |-> "InvalidFrameError"]

-----------------------------------------------------------------------------
(* method.py *)

MethodID(class, method) == 65536 * class + method

\* The format of the arguments, and the property that each of the values is.
Decoder(class, method, format, keys) ==
    [id |-> MethodID(class, method), format |-> format, keys |-> keys]

Decoders ==
    [START_OK |-> Decoder(10, 11, <<"F", "s", "S", "s">>,
        <<"peer-properties", "mechanism", "response", "locale">>),
     TUNE_OK |-> Decoder(10, 31, <<"B", "l", "B">>,
        <<"channel-max", "frame-max", "heartbeat">>),
     OPEN |-> Decoder(10, 40, <<"s", "s", "b">>, <<"vhost", "capabilities", "insist">>),
     CLOSE |-> Decoder(10, 50, <<>>, <<>>),
     CHANNEL_OPEN |-> Decoder(20, 10, <<"s">>, <<"reserved-1">>),
     CHANNEL_CLOSE |-> Decoder(20, 40, <<"B", "s", "B", "B">>,
        <<"reply-code", "reply-text", "class-id", "method-id">>),
     BASIC_QOS |-> Decoder(60, 10, <<"l", "B", "b">>,
        <<"prefetch-size", "prefetch-count", "global">>),
     BASIC_PUBLISH |-> Decoder(60, 40, <<"B", "s", "s", "b", "b">>,
        <<"reserved-1", "exchange-name", "routing-key", "mandatory", "immediate">>),
     BASIC_CONSUME |-> Decoder(60, 20, <<"B", "s", "s", "b", "b", "b", "b", "F">>,
        <<"reserved-1", "queue-name", "consumer-tag", "no-local", "no-ack",
          "exclusive", "no-wait", "arguments">>),
     BASIC_ACK |-> Decoder(60, 80, <<"L", "b">>, <<"delivery-tag", "multiple">>),
     BASIC_NACK |-> Decoder(60, 120, <<"L", "b", "b">>,
        <<"delivery-tag", "multiple", "requeue">>),
     BASIC_CANCEL |-> Decoder(60, 30, <<"s", "b">>, <<"consumer-tag", "no-wait">>),
     QUEUE_DECLARE |-> Decoder(50, 10, <<"B", "s", "b", "b", "b", "b", "b", "F">>,
        <<"reserved-1", "queue-name", "passive", "durable", "exclusive",
          "auto-delete", "no-wait", "arguments">>),
     QUEUE_BIND |-> Decoder(50, 20, <<"B", "s", "s", "s", "b", "F">>,
        <<"reserved-1", "queue-name", "exchange-name", "routing-key", "no-wait",
          "arguments">>),
     EXCHANGE_DECLARE |->
        Decoder(40, 10, <<"B", "s", "s", "b", "b", "b", "b", "b", "F">>,
        <<"reserved-1", "exchange-name", "type", "passive", "durable",
          "auto-delete", "internal", "no-wait", "arguments">>)]

ID_TO_METHOD ==
    [id \in {Decoders[n].id : n \in DOMAIN Decoders} |->
        CHOOSE n \in DOMAIN Decoders : Decoders[n].id = id]

\* Two arguments of exchange.declare are read one place too early.
Misplaced == {"no-wait", "arguments"}

\* Which of the values a property is.
Place(name, key) ==
    LET keys == Decoders[name].keys
        place == CHOOSE i \in DOMAIN keys : keys[i] = key
    IN IF name = "EXCHANGE_DECLARE" /\ key \in Misplaced THEN place - 1 ELSE place

Method(payload) ==
    LET name == ID_TO_METHOD[unpack(Bytes(payload, 0, 4))]
        r == load(Decoders[name].format, payload, 4)
    IN IF r = UnicodeDecodeError THEN r
       ELSE [name |-> name,
             args |-> [k \in ToSet(Decoders[name].keys) |-> r.values[Place(name, k)]]]

\* Name, format and mask of each property of a content header, in wire order.
PROPERTIES ==
    << <<"content_type", "s", 32768>>, <<"content_encoding", "s", 16384>>,
       <<"application_headers", "F", 8192>>, <<"delivery_mode", "o", 4096>>,
       <<"priority", "o", 2048>>, <<"correlation_id", "s", 1024>>,
       <<"reply_to", "s", 512>>, <<"expiration", "s", 256>>, <<"message_id", "s", 128>>,
       <<"timestamp", "L", 64>>, <<"type", "s", 32>>, <<"user_id", "s", 16>>,
       <<"app_id", "s", 8>>, <<"cluster_id", "s", 4>> >>

\* The entries of such a table that have one of these names, and the sum of their masks.
Selected(table, names) ==
    LET selected[n \in 0 .. Len(table)] ==
            IF n = 0 THEN <<>>
            ELSE IF table[n][1] \in names THEN Append(selected[n - 1], table[n])
            ELSE selected[n - 1]
    IN selected[Len(table)]

Flags(table, names) ==
    LET flags[n \in 0 .. Len(table)] ==
            IF n = 0 THEN 0
            ELSE IF table[n][1] \in names THEN flags[n - 1] + table[n][3]
            ELSE flags[n - 1]
    IN flags[Len(table)]

\* The names whose mask is set in the flags.
Flagged(flags) ==
    {PROPERTIES[n][1] : n \in {m \in DOMAIN PROPERTIES :
                                  (flags \div PROPERTIES[m][3]) % 2 = 1}}

Header(payload) ==
    LET names == Flagged(unpack(Bytes(payload, 12, 2)))
        present == Selected(PROPERTIES, names)
        r == load([i \in DOMAIN present |-> present[i][2]], payload, 14)
    IN IF r = UnicodeDecodeError THEN r
       ELSE [name |-> "HEADER",
             args |-> [body_size |-> unpack(Bytes(payload, 4, 8)),
                       properties |-> [k \in names |->
                          r.values[CHOOSE i \in DOMAIN present : present[i][1] = k]]]]

Body(payload) == [name |-> "BODY", args |-> [content |-> payload]]

-----------------------------------------------------------------------------
(* frame.py *)

frame_size(data) == FRAME_HEADER_SIZE + unpack(Bytes(data, 3, 4)) + FRAME_END_SIZE

\* Regression: the octet that ends a frame is taken for its last byte.
Payload_with_end(data) == SubSeq(data, FRAME_HEADER_SIZE + 1, frame_size(data))

Payload(data) == SubSeq(data, FRAME_HEADER_SIZE + 1, frame_size(data) - 1)

\* Bytes that end too early wait for more; so do those of an unknown frame type.
\* Text that does not decode raises.
read_frame(data) ==
    IF Len(data) < FRAME_HEADER_SIZE THEN NoFrame
    ELSE IF frame_size(data) > Len(data) THEN NoFrame
    ELSE IF data[frame_size(data)] # FRAME_END THEN InvalidFrame
    ELSE LET type == data[1]
             On(channel, f) == IF f = UnicodeDecodeError THEN f
                               ELSE [name |-> f.name, chan |-> channel, args |-> f.args,
                                     size |-> frame_size(data)]
             channel_number == unpack(Bytes(data, 1, 2))
         IN CASE type = 1 -> On(channel_number, Method(Payload(data)))
              [] type = 8 -> On(0, [name |-> "HEARTBEAT", args |-> <<>>])
              [] type = 2 -> On(channel_number, Header(Payload(data)))
              [] type = 3 -> On(channel_number, Body(Payload(data)))
              [] OTHER    -> NoFrame
=============================================================================
