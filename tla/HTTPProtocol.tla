---------------------------- MODULE HTTPProtocol ----------------------------
(***************************************************************************)
(* The test's side of the server: class HTTPProtocol (http_protocol.py),   *)
(* one instance per HTTP connection, over the broker tables and the waits  *)
(* of WaitLoops.  The HTTP connections are the Waiters of that module: a   *)
(* connection carries one request, since http_parser.start_next_cycle() is *)
(* never called.                                                           *)
(*                                                                         *)
(* The parser is h11, a library: NextEvent, their_state and our_state are  *)
(* what http_protocol.py meets of it.  An iteration of the loop over its   *)
(* events is one action, and `serving' is the connection whose loop is     *)
(* under way: no other callback runs before it ends.                       *)
(***************************************************************************)
EXTENDS WaitLoops

CONSTANTS
    Calls,      \* the requests the tests make
    Readable,   \* messages whose body is bytes in UTF-8
    Textual,    \* messages that came in JSON: their body is a str
    NoCall,     \* no request was made on the connection
    Free        \* no data_received is under way

VARIABLES
    call,           \* client: the request of each connection
    outgoing,       \* client: what it still has to send
    arriving,       \* sent and not received yet
    receive_buffer, \* received and not parsed yet
    parsed,         \* number of pieces of the body given to the handlers
    their_state, our_state,     \* of h11.Connection
    request_state,  \* HTTPProtocol._state
    hung_up,        \* connections whose transport is closing
    written,        \* status codes written to each transport
    serving

clientVars == <<call, outgoing>>
parserVars == <<receive_buffer, parsed, request_state>>
httpVars == <<clientVars, arriving, parserVars, their_state, our_state, hung_up,
              written, serving>>
httpAll == <<waitVars, httpVars>>

-----------------------------------------------------------------------------
(* Requests.  A body arrives in at most `pieces' pieces; `more' tells that   *)
(* the client sends further bytes, of a next request, behind it; `switch'    *)
(* that it proposes another protocol: CONNECT, or an Upgrade: header.        *)

\* A body sent as application/octet-stream is named by the pieces it holds.
Slice(from, to) == [from |-> from, to |-> to]

Action ==
    [on : {"state", "unknown", "bad"}]
    \cup [on : {"wait"}, target : Targets]
    \cup [on : {"queue", "create-queue"}, name : Queues]
    \cup [on : {"exchange"}, name : Exchanges]
    \cup [on : {"create-exchange"}, name : Exchanges, type : Types]
    \cup [on : {"add-message-on"}, name : Exchanges, json : Textual \cup {NoCall}]
    \cup [on : {"add-message-in-queue"}, name : Queues, json : Textual \cup {NoCall}]

Call == [method : {"MOCK_FLUSH", "GET", "DELETE", "POST", "PUT", "OTHER", "MALFORMED"},
         action : Action, pieces : Nat, keep_alive : BOOLEAN, more : BOOLEAN,
         switch : BOOLEAN]

IsBinary(a) == a.on \in {"add-message-on", "add-message-in-queue"} /\ a.json = NoCall

ASSUME HttpAssumption ==
    /\ Calls \subseteq Call
    /\ Readable \subseteq Messages /\ Textual \subseteq Messages
    /\ \A c \in Calls : IsBinary(c.action) =>
          \A i \in 1 .. c.pieces : \A j \in i .. c.pieces : Slice(i, j) \in Messages
    /\ NoCall \notin Calls \cup Textual
    /\ Free \notin Waiters

Item == {"HEAD", "PIECE", "MORE"}

Wire(c) == [i \in 1 .. c.pieces |-> "PIECE"] \o (IF c.more THEN <<"MORE">> ELSE <<>>)

-----------------------------------------------------------------------------
(* The test, and the network: a request is cut in any segments *)

MakeRequest(w) ==
    /\ serving = Free
    /\ call[w] = NoCall
    /\ \E c \in Calls :
          /\ call' = [call EXCEPT ![w] = c]
          /\ outgoing' = [outgoing EXCEPT ![w] = Wire(c)]
    /\ arriving' = [arriving EXCEPT ![w] = <<"HEAD">>]
    /\ UNCHANGED <<waitVars, parserVars, their_state, our_state, hung_up, written, serving>>

Transmit(w) ==
    /\ serving = Free
    /\ outgoing[w] # <<>> /\ w \notin hung_up
    /\ arriving' = [arriving EXCEPT ![w] = Append(@, Head(outgoing[w]))]
    /\ outgoing' = [outgoing EXCEPT ![w] = Tail(@)]
    /\ UNCHANGED <<waitVars, call, parserVars, their_state, our_state, hung_up,
                   written, serving>>

Leave(w) ==
    /\ serving = Free
    /\ call[w] # NoCall
    /\ hung_up' = hung_up \cup {w}
    /\ UNCHANGED <<waitVars, clientVars, arriving, parserVars, their_state, our_state,
                   written, serving>>

-----------------------------------------------------------------------------
(* h11: the next event of the buffer.  Behind a whole request the parser     *)
(* pauses: at further bytes, unless the connection is to be closed, and at   *)
(* once when the client proposed another protocol and waits for the answer.  *)

\* A Data event takes all that is there of the body.
Pieces(w) ==
    LET due == call[w].pieces - parsed[w]
        there == Len(receive_buffer[w])
    IN IF there < due THEN there ELSE due

NextEvent(w) ==
    CASE their_state[w] = "IDLE" ->
            IF call[w].method = "MALFORMED" THEN "RemoteProtocolError" ELSE "Request"
      [] their_state[w] = "SEND_BODY" ->
            IF parsed[w] = call[w].pieces THEN "EndOfMessage"
            ELSE IF receive_buffer[w] = <<>> THEN "NEED_DATA" ELSE "Data"
      [] their_state[w] = "DONE" ->
            IF receive_buffer[w] = <<>> THEN "NEED_DATA" ELSE "PAUSED"
      [] their_state[w] = "MIGHT_SWITCH_PROTOCOL" -> "PAUSED"
      [] their_state[w] = "MUST_CLOSE" ->
            IF receive_buffer[w] = <<>> THEN "NEED_DATA" ELSE "RemoteProtocolError"
      [] their_state[w] = "ERROR" -> "RemoteProtocolError"

\* A response is sent once per connection; it carries Connection: close.
CanRespond(w) == our_state[w] = "SEND_RESPONSE"

\* Regression: responses without Connection: close.
EndState_keeps_alive(w) ==
    IF call[w].switch /\ CanRespond(w) THEN "MIGHT_SWITCH_PROTOCOL"
    ELSE IF call[w].keep_alive THEN "DONE"
    ELSE "MUST_CLOSE"

\* The state of the client once its request is complete.  A response settles the
\* proposal of another protocol, with the one this server speaks.
EndState(w) ==
    IF call[w].switch /\ CanRespond(w) THEN "MIGHT_SWITCH_PROTOCOL"
    ELSE IF call[w].keep_alive /\ CanRespond(w) THEN "DONE"
    ELSE "MUST_CLOSE"

\* Regression: the bytes of an empty response are not written.
Send_unwritten(w, status) ==
    /\ our_state' = [our_state EXCEPT ![w] = "SEND_BODY"]
    /\ written' = IF status = 204 THEN written ELSE [written EXCEPT ![w] = Append(@, status)]

\* http_parser.send and transport.write: the parser refuses a second response.
Send(w, status) ==
    IF CanRespond(w)
    THEN /\ our_state' = [our_state EXCEPT ![w] = "SEND_BODY"]
         /\ written' = [written EXCEPT ![w] = Append(@, status)]
    ELSE /\ our_state' = [our_state EXCEPT ![w] = "ERROR"]
         /\ UNCHANGED written

\* Regression: the except branch writes its answer around the parser.
Fail_unparsed(w) ==
    /\ our_state' = [our_state EXCEPT ![w] = "ERROR"]
    /\ written' = [written EXCEPT ![w] = Append(@, 500)]
    /\ serving' = Free
    /\ hung_up' = hung_up \cup {w}

\* An exception of a handler: the except branch of data_received answers 500 and
\* closes, unless the parser refuses the 500 too; then asyncio closes (since
\* Python 3.7) or not (before).
Fail(w) ==
    /\ Send(w, 500)
    /\ serving' = Free
    /\ \/ hung_up' = hung_up \cup {w}
       \/ ~CanRespond(w) /\ UNCHANGED hung_up

\* _send_http_response_* within the loop: a refused response raises.
Answer(w, status) ==
    IF CanRespond(w) THEN Send(w, status) /\ UNCHANGED <<hung_up, serving>>
    ELSE Fail(w)

NoAnswer == UNCHANGED <<our_state, written, hung_up, serving>>

-----------------------------------------------------------------------------
(* The handlers of a request *)

\* State.to_json: deques, sets and bytes are not JSON serializable.
Serializable ==
    queues = EmptyDict /\ \A e \in DOMAIN exchanges :
                              Elements(exchanges[e].messages) \subseteq Textual

\* get_messages_of_*: a body that is a str has no decode(); one that is not UTF-8
\* is encoded with base64, which state.py does not import.
Inspect(w, messages) ==
    IF Elements(messages) \subseteq Readable THEN Answer(w, 200) ELSE Fail(w)

\* Regression: the inspection of an unknown queue or exchange is not answered.
_on_get_falls_through(w, a) ==
    /\ IF a.on = "wait" THEN Get(w) /\ wait'[w].target = a.target ELSE UNCHANGED waitVars
    /\ CASE a.on = "state" -> IF Serializable THEN Answer(w, 200) ELSE Fail(w)
         [] a.on = "bad"   -> Fail(w)
         [] OTHER          -> NoAnswer

_on_get(w, a) ==
    /\ IF a.on = "wait" THEN Get(w) /\ wait'[w].target = a.target /\ NoAnswer
       ELSE UNCHANGED waitVars
    /\ a.on = "state" => IF Serializable THEN Answer(w, 200) ELSE Fail(w)
    /\ a.on = "queue" => IF a.name \in DOMAIN queues
                         THEN Inspect(w, queues[a.name].messages) ELSE Answer(w, 404)
    /\ a.on = "exchange" => IF a.name \in DOMAIN exchanges
                            THEN Inspect(w, exchanges[a.name].messages)
                            ELSE Answer(w, 404)
    /\ a.on = "bad" => Fail(w)
    /\ a.on \notin {"wait", "state", "queue", "exchange", "bad"} => Answer(w, 404)

\* Regression helper.
delete_messages_of_exchange_whole(e) ==
    /\ exchanges' = [x \in DOMAIN exchanges \ {e} |-> exchanges[x]]
    /\ UNCHANGED <<queues, queues_bound_exchanges, authentication_tried_on,
                   settled, outputs>>

\* Regression: DELETE removes the exchange.
_on_delete_whole(w, a) ==
    /\ CASE a.on = "queue"    -> delete_messages_of_queue(a.name) /\ Answer(w, 204)
         [] a.on = "exchange" -> delete_messages_of_exchange_whole(a.name) /\ Answer(w, 204)
         [] OTHER             -> UNCHANGED tables /\ Answer(w, 404)
    /\ UNCHANGED <<closing, wait, answer>>

_on_delete(w, a) ==
    /\ CASE a.on = "queue"    -> delete_messages_of_queue(a.name) /\ Answer(w, 204)
         [] a.on = "exchange" -> delete_messages_of_exchange(a.name) /\ Answer(w, 204)
         [] OTHER             -> UNCHANGED tables /\ Answer(w, 404)
    /\ UNCHANGED <<closing, wait, answer>>

\* Regression: the tag is answered without a look at whether there is one.
Offered_always(w, q, m) ==
    IF m \in Unsendable /\ \E k \in Elements(queues[q].consumers) : k.conn \notin closing
    THEN Fail(w) ELSE Answer(w, 200)

\* The answer to a message that reached q: the tag, or `not found' when None was
\* returned, or an exception when the message could not be pushed.
Offered(w, q, m) ==
    IF m \in Unsendable /\ \E k \in Elements(queues[q].consumers) : k.conn \notin closing
    THEN Fail(w)
    ELSE Answer(w, IF queues[q].consumers = <<>> THEN 404 ELSE 200)

add_message_on(w, e, m, t) ==
    IF e \in DOMAIN exchanges /\ BoundTo(e) # {}
    THEN /\ exchanges' = Keep(e, m)
         /\ \E q \in BoundTo(e) :
               Offer(q, queues[q].messages, m, t) /\ Offered(w, q, m)
         /\ UNCHANGED <<queues_bound_exchanges, authentication_tried_on, settled>>
    ELSE publish_message(e, m, t) /\ Answer(w, 404)

add_message_in_queue(w, q, m, t) ==
    /\ publish_message_in_queue(q, m, t)
    /\ IF q \in DOMAIN queues THEN Offered(w, q, m) ELSE Answer(w, 404)

\* _on_post is given the pieces from .. to of the body.  JSON cut in two does not
\* parse; binary data is a message whatever it was cut from.
_on_post(w, a, from, to) ==
    LET m == IF IsBinary(a) THEN Slice(from, to) ELSE a.json
        cut == ~IsBinary(a) /\ Slice(from, to) # Slice(1, call[w].pieces)
    IN
    /\ CASE a.on \in {"add-message-on", "add-message-in-queue"} /\ cut ->
                UNCHANGED tables /\ Fail(w)
         [] a.on = "add-message-on" /\ ~cut ->
                \E t \in DeliveryTags : add_message_on(w, a.name, m, t)
         [] a.on = "add-message-in-queue" /\ ~cut ->
                \E t \in DeliveryTags : add_message_in_queue(w, a.name, m, t)
         [] a.on = "create-exchange" -> declare_exchange(a.name, a.type) /\ Answer(w, 200)
         [] a.on = "create-queue" -> declare_queue(a.name) /\ Answer(w, 200)
         [] a.on = "bad" -> UNCHANGED tables /\ Fail(w)
         [] OTHER -> UNCHANGED tables /\ Answer(w, 404)
    /\ UNCHANGED <<closing, wait, answer>>

_on_put(w) == Answer(w, 404) /\ UNCHANGED waitVars

-----------------------------------------------------------------------------
(* data_received, and the turns of its loop *)

data_received(w) ==
    /\ serving = Free
    /\ arriving[w] # <<>> /\ w \notin hung_up
    /\ receive_buffer' = [receive_buffer EXCEPT ![w] = @ \o arriving[w]]
    /\ arriving' = [arriving EXCEPT ![w] = <<>>]
    /\ serving' = w
    /\ UNCHANGED <<waitVars, clientVars, parsed, request_state, their_state, our_state,
                   hung_up, written>>

On(w, event) == serving = w /\ NextEvent(w) = event

OnRequest(w) ==
    LET c == call[w] IN
    /\ On(w, "Request")
    /\ receive_buffer' = [receive_buffer EXCEPT ![w] = Tail(@)]
    /\ their_state' = [their_state EXCEPT ![w] = "SEND_BODY"]
    /\ request_state' = IF c.method \in {"POST", "PUT"}
                        THEN [request_state EXCEPT ![w] = "WAITING_BODY"]
                        ELSE request_state
    /\ CASE c.method = "MOCK_FLUSH" ->
                reset /\ Answer(w, 204) /\ UNCHANGED <<closing, wait, answer>>
         [] c.method = "GET"    -> _on_get(w, c.action)
         [] c.method = "DELETE" -> _on_delete(w, c.action)
         [] OTHER               -> NoAnswer /\ UNCHANGED waitVars
    /\ UNCHANGED <<clientVars, arriving, parsed>>

OnData(w) ==
    LET to == parsed[w] + Pieces(w) IN
    /\ On(w, "Data")
    /\ receive_buffer' = [receive_buffer EXCEPT ![w] = SubSeq(@, Pieces(w) + 1, Len(@))]
    /\ parsed' = [parsed EXCEPT ![w] = to]
    /\ IF request_state[w] = "WAITING_BODY"
       THEN \/ call[w].method = "POST" /\ _on_post(w, call[w].action, parsed[w] + 1, to)
            \/ call[w].method = "PUT" /\ _on_put(w)
       ELSE NoAnswer /\ UNCHANGED waitVars
    /\ UNCHANGED <<clientVars, arriving, their_state, request_state>>

OnEndOfMessage(w) ==
    /\ On(w, "EndOfMessage")
    /\ their_state' = [their_state EXCEPT ![w] = EndState(w)]
    /\ request_state' = [request_state EXCEPT ![w] = "WAITING_HEADERS"]
    /\ NoAnswer
    /\ UNCHANGED <<waitVars, clientVars, arriving, receive_buffer, parsed>>

OnNeedData(w) ==
    /\ On(w, "NEED_DATA")
    /\ serving' = Free
    /\ UNCHANGED <<waitVars, clientVars, arriving, parserVars, their_state, our_state,
                   hung_up, written>>

\* next_event itself raises.  (While it returns PAUSED the loop goes round without
\* changing anything: no action.)
OnRemoteProtocolError(w) ==
    /\ On(w, "RemoteProtocolError")
    /\ their_state' = [their_state EXCEPT ![w] = "ERROR"]
    /\ Fail(w)
    /\ UNCHANGED <<waitVars, clientVars, arriving, parserVars>>

Turn(w) ==
    \/ OnRequest(w) \/ OnData(w) \/ OnEndOfMessage(w) \/ OnNeedData(w)
    \/ OnRemoteProtocolError(w)

\* A turn of a wait, and _on_get_done when it was the last.
PollAndAnswer(w) ==
    /\ serving = Free
    /\ Poll(w)
    /\ IF answer'[w] = answer[w] THEN UNCHANGED <<their_state, our_state, written>>
       ELSE /\ Send(w, answer'[w])
            /\ their_state' = [their_state EXCEPT ![w] =
                                   IF @ \in {"DONE", "MIGHT_SWITCH_PROTOCOL"}
                                   THEN "MUST_CLOSE" ELSE @]
    /\ UNCHANGED <<clientVars, arriving, parserVars, hung_up, serving>>

-----------------------------------------------------------------------------
(* The AMQP side, between two callbacks, and the specification *)

Worker ==
    /\ serving = Free
    /\ \/ /\ \/ \E u \in Users, p \in Passwords : check_credentials(u, p)
             \/ \E e \in Exchanges, t \in Types : declare_exchange(e, t)
             \/ \E q \in Queues : declare_queue(q)
             \/ \E q \in Queues, e \in Exchanges : bind_queue(q, e)
             \/ \E c \in Conns, ct \in ConsumerTags, q \in Queues, ch \in Channels :
                    register_consumer(c, ct, q, ch)
             \/ \E e \in Exchanges, m \in Messages \ Textual : store_message(e, m)
             \/ \E t \in DeliveryTags : message_ack(t)
             \/ \E t \in DeliveryTags, requeue \in BOOLEAN : message_nack(t, requeue)
          /\ UNCHANGED closing
       \/ \E c \in Conns : Hangup(c)
    /\ UNCHANGED <<wait, answer, httpVars>>

HttpInit ==
    /\ WaitInit
    /\ call = [w \in Waiters |-> NoCall]
    /\ outgoing = [w \in Waiters |-> <<>>]
    /\ arriving = [w \in Waiters |-> <<>>]
    /\ receive_buffer = [w \in Waiters |-> <<>>]
    /\ parsed = [w \in Waiters |-> 0]
    /\ their_state = [w \in Waiters |-> "IDLE"]
    /\ our_state = [w \in Waiters |-> "SEND_RESPONSE"]
    /\ request_state = [w \in Waiters |-> "WAITING_HEADERS"]
    /\ hung_up = {}
    /\ written = [w \in Waiters |-> <<>>]
    /\ serving = Free

HttpNext ==
    \/ Worker
    \/ \E w \in Waiters :
          \/ MakeRequest(w) \/ Transmit(w) \/ Leave(w)
          \/ data_received(w) \/ Turn(w) \/ PollAndAnswer(w)

HttpSpec == HttpInit /\ [][HttpNext]_httpAll

\* The event loop serves every readable socket, resumes every coroutine whose
\* sleep has ended, and a handler it has started runs on.
HttpFairness ==
    /\ \A w \in Waiters : WF_httpAll(data_received(w)) /\ WF_httpAll(PollAndAnswer(w))
    /\ WF_httpAll(\E w \in Waiters : Turn(w))

-----------------------------------------------------------------------------
(* Properties *)

\* What the parser has taken of a request: its head, and pieces of its body.
Taken(w) ==
    IF their_state[w] = "IDLE" \/ call[w].method = "MALFORMED" THEN 0 ELSE 1 + parsed[w]

\* A connection is in the states the handlers can meet: no byte of its request is
\* lost or moved between its client and its parser, however it is cut; a response
\* was written exactly when the parser refuses another one; a loop under way is
\* that of a connection with a request.
HttpTypeOK ==
    /\ \A w \in Waiters :
          /\ call[w] \in Calls \cup {NoCall}
          /\ CanRespond(w) <=> written[w] = <<>>
          /\ call[w] # NoCall =>
                LET whole == <<"HEAD">> \o Wire(call[w]) IN
                receive_buffer[w] \o arriving[w] \o outgoing[w]
                    = SubSeq(whole, Taken(w) + 1, Len(whole))
    /\ outgoing \in [Waiters -> Seq(Item)]
    /\ arriving \in [Waiters -> Seq(Item)]
    /\ receive_buffer \in [Waiters -> Seq(Item)]
    /\ their_state \in [Waiters -> {"IDLE", "SEND_BODY", "DONE", "MIGHT_SWITCH_PROTOCOL",
                                    "MUST_CLOSE", "ERROR"}]
    /\ our_state \in [Waiters -> {"SEND_RESPONSE", "SEND_BODY", "ERROR"}]
    /\ request_state \in [Waiters -> {"WAITING_HEADERS", "WAITING_BODY"}]
    /\ written \in [Waiters -> Seq({200, 204, 403, 404, 500, 504})]
    /\ hung_up \subseteq Waiters
    /\ serving # Free => serving \in Waiters /\ call[serving] # NoCall

\* A request is answered once at most, although a body in several pieces, a late
\* wait and the except branch (http_protocol.py:42-46) each may try again.
OneAnswer == \A w \in Waiters : Len(written[w]) <= 1

\* POST /add-message-* (http_protocol.py:231-267) tells what became of the message:
\* with a tag it was issued for this body, and otherwise nothing was pushed.
AnswerTellsTruth ==
    [][\A w \in Waiters :
          (/\ written'[w] # written[w]
           /\ call[w].method = "POST"
           /\ call[w].action.on \in {"add-message-on", "add-message-in-queue"}) =>
              IF 200 \in Elements(written'[w])
              THEN \E r \in issued', i, j \in 1 .. call[w].pieces :
                      r.msg = IF IsBinary(call[w].action) THEN Slice(i, j)
                              ELSE call[w].action.json
              ELSE UNCHANGED pushed]_httpAll

\* data_received (http_protocol.py:48) returns, unless the request is unanswered and
\* more bytes of the connection have arrived, or the request, read to its end,
\* proposed another protocol.  Then the parser pauses and the loop, which knows
\* NEED_DATA only, never ends.
Overrun(w) ==
    /\ written[w] = <<>>
    /\ \/ "MORE" \in Elements(receive_buffer[w])
       \/ their_state[w] = "MIGHT_SWITCH_PROTOCOL"

LoopEnds == \A w \in Waiters : serving = w ~> (serving # w \/ Overrun(w))

\* Requests the handlers treat: a POST or PUT without a body gives no Data event.
Treated(c) ==
    c.method \in {"MOCK_FLUSH", "GET", "DELETE", "MALFORMED"}
        \/ (c.method \in {"POST", "PUT"} /\ c.pieces > 0)

Complete(w) == call[w] # NoCall /\ "PIECE" \notin Elements(outgoing[w])

\* Such a request, once complete, is answered in the end or its connection closes,
\* whatever the other connections do, short of blocking the event loop.
RequestAnswered ==
    \A w \in Waiters :
        (Complete(w) /\ Treated(call[w]))
            ~> (written[w] # <<>> \/ w \in hung_up \/ (serving # Free /\ Overrun(serving)))

\* "It's possible use application/octet-stream content-type to send binary data"
\* (README.md:85): a message kept for a queue is the whole body of a request.
BinaryBodyWhole ==
    \A q \in DOMAIN queues : \A m \in Elements(queues[q].messages) :
        m \notin Textual \cup Readable =>
            \E w \in Waiters : call[w] # NoCall /\ m = Slice(1, call[w].pieces)
=============================================================================
