------------------------- MODULE HTTPProtocolProofs -------------------------
(***************************************************************************)
(* The HTTP side, for any number of connections, any requests and bodies   *)
(* of any length: it makes nothing of the broker and the waits but their   *)
(* own steps, no connection is answered twice, no byte of a request is     *)
(* lost or moved on its way to the parser, and the answer to a publication *)
(* tells what became of it.                                                *)
(*                                                                         *)
(* First the waiting GET requests, for any number of them, any targets and *)
(* any number of turns.  A wait answers from tables that other callbacks   *)
(* change, so its answer is right only because the tables keep BrokerInv.  *)
(***************************************************************************)
EXTENDS HTTPProtocol, BrokerStateProofs

-----------------------------------------------------------------------------
(* The waits *)

WaitInv == BrokerInv /\ WaitTypeOK

\* A turn of a loop (state.py:362-369) counts up to the last and answers once.
LEMMA PollTyped ==
    ASSUME WaitTypeOK, NEW w \in Waiters, Poll(w) PROVE WaitTypeOK'
<1> DEFINE g == wait[w].target
           p == wait[w].polls
<1>1. /\ wait \in [Waiters -> Wait] /\ answer \in [Waiters -> {0, 204, 403, 504}]
      /\ \A x \in Waiters : answer[x] # 0 => Asked(x)
      /\ \A x \in Waiters : answer[x] = 504 => wait[x].polls = Timeout
  BY DEF WaitTypeOK
<1>2. Asked(w) /\ answer[w] = 0
  BY DEF Poll, Waiting, Answered
<1>3. wait[w] \in [target : Targets, polls : 0 .. Timeout]
  BY <1>1, <1>2 DEF Wait, Asked
<1>4. CASE p = Timeout /\ Reply(w, 504)
  BY <1>1, <1>2, <1>4 DEF Reply, WaitTypeOK, Asked
<1>5. CASE Reply(w, Status(g))
  <2>1. Status(g) \in {204, 403}
    BY DEF Status
  <2> HIDE DEF g
  <2> QED BY <1>1, <1>2, <1>5, <2>1 DEF Reply, WaitTypeOK, Asked
<1>6. CASE p # Timeout /\ wait' = [wait EXCEPT ![w].polls = @ + 1] /\ UNCHANGED answer
  <2>1. p \in 0 .. Timeout /\ Timeout \in Nat
    BY <1>3, WaitAssumption
  <2>2. p + 1 \in 0 .. Timeout
    BY <1>6, <2>1
  <2> DEFINE r == [wait[w] EXCEPT !.polls = p + 1]
  <2>3. r \in [target : Targets, polls : 0 .. Timeout]
    BY <1>3, <2>2
  <2>4. wait' = [wait EXCEPT ![w] = r]
    BY <1>6
  <2> HIDE DEF r
  <2>5. wait' \in [Waiters -> Wait]
    BY <1>1, <2>3, <2>4 DEF Wait
  <2>6. \A x \in Waiters : x # w => wait'[x] = wait[x]
    BY <1>1, <2>4
  <2> QED BY <1>1, <1>2, <1>6, <2>5, <2>6 DEF WaitTypeOK, Asked
<1> QED BY <1>4, <1>5, <1>6 DEF Poll

\* A request (http_protocol.py:108-211) starts a wait that has not looked yet.
LEMMA GetTyped ==
    ASSUME WaitTypeOK, NEW w \in Waiters, Get(w) PROVE WaitTypeOK'
<1>1. PICK g \in Targets : wait' = [wait EXCEPT ![w] = [target |-> g, polls |-> 0]]
  BY DEF Get
<1>2. [target |-> g, polls |-> 0] \in Wait
  BY WaitAssumption DEF Wait
<1>3. answer[w] = 0 /\ answer' = answer
  BY DEF Get, WaitTypeOK
<1> DEFINE r == [target |-> g, polls |-> 0]
<1> HIDE DEF r
<1>4. wait' = [wait EXCEPT ![w] = r] /\ r \in Wait
  BY <1>1, <1>2 DEF r
<1> QED BY <1>3, <1>4 DEF WaitTypeOK, Asked

\* Waits do not change the tables.
LEMMA WaitBrokerStep == [WaitNext]_waitVars => [BrokerNext]_brokerVars
BY DEF WaitNext, Get, Poll, waitVars

\* WaitInv is inductive.
LEMMA WaitInductive == WaitInv /\ [WaitNext]_waitVars => WaitInv'
<1> SUFFICES ASSUME WaitInv, [WaitNext]_waitVars PROVE WaitInv'
  OBVIOUS
<1>1. BrokerInv'
  BY WaitBrokerStep, NextInv DEF WaitInv
<1>2. CASE UNCHANGED <<wait, answer>>
  BY <1>1, <1>2 DEF WaitInv, WaitTypeOK, Asked
<1>3. CASE \E w \in Waiters : Get(w) \/ Poll(w)
  BY <1>1, <1>3, GetTyped, PollTyped DEF WaitInv
<1> QED BY <1>2, <1>3 DEF WaitNext, waitVars

LEMMA WaitInitial == WaitInit => WaitInv
BY InitInv, WaitAssumption DEF WaitInit, WaitInv, WaitTypeOK, Wait

\* Waiting is bounded by the turns, and a timeout is given after all of them
\* (state.py:362-369), for any number of concurrent waits.
THEOREM WaitTypeCorrect == WaitSpec => []WaitTypeOK
<1>1. WaitInv => WaitTypeOK
  BY DEF WaitInv
<1> QED BY <1>1, WaitInitial, WaitInductive, PTL DEF WaitSpec

\* A success is answered for the very settlement or login that was asked for; the
\* queue it reports bound is bound to the exchange that was asked for, and both of
\* them exist (http_protocol.py:314-324).
THEOREM AnswerAlwaysForTarget == WaitSpec => AnswerIsForTarget
<1> DEFINE Right(w) ==
               LET g == wait[w].target IN
               /\ g.on = "acknowledged" => g.dtag \in message_acknowledged
               /\ g.on = "not_acknowledged" => g.dtag \in message_not_acknowledged
               /\ g.on = "requeued" => g.dtag \in message_requeued
               /\ g.on = "authentication" => authentication_tried_on[g.user]
               /\ g.on = "queue_bound" =>
                     /\ g.queue \in BoundTo(g.exchange)
                     /\ g.exchange \in DOMAIN exchanges /\ g.queue \in DOMAIN queues
           A == \A w \in Waiters : (answer'[w] = 204 /\ answer[w] # 204) => Right(w)
<1>1. WaitInv /\ [WaitNext]_waitVars => [A]_waitVars
  <2> SUFFICES ASSUME WaitInv, WaitNext PROVE A
    BY DEF waitVars
  <2>1. answer \in [Waiters -> {0, 204, 403, 504}]
    BY DEF WaitInv, WaitTypeOK
  <2>2. CASE UNCHANGED answer
    BY <2>2
  <2>3. ASSUME NEW w \in Waiters, Poll(w) PROVE A
    <3> DEFINE g == wait[w].target
    <3>1. g \in Targets /\ g \in Target
      <4>1. wait[w] \in Wait /\ Asked(w)
        BY <2>3 DEF WaitInv, WaitTypeOK, Poll, Waiting
      <4>2. wait[w] \in [target : Targets, polls : 0 .. Timeout]
        BY <4>1 DEF Wait, Asked
      <4> QED BY <4>2, WaitAssumption
    <3>2. g.on \in {"acknowledged", "not_acknowledged", "requeued", "authentication",
                    "queue_bound"}
      BY <3>1 DEF Target
    <3>3. \A x \in Waiters : x # w => answer'[x] = answer[x]
      BY <2>1, <2>3 DEF Poll, Reply
    <3>4. answer'[w] = 204 /\ answer[w] # 204 => Found(g) /\ Status(g) = 204
      BY <2>1, <2>3 DEF Poll, Reply
    <3>5. Found(g) /\ Status(g) = 204 => Right(w)
      <4> SUFFICES ASSUME Found(g), Status(g) = 204 PROVE Right(w)
        OBVIOUS
      <4>1. CASE g.on \in {"acknowledged", "not_acknowledged", "requeued"}
        BY <4>1 DEF Found
      <4>2. CASE g.on = "authentication"
        BY <4>2 DEF Status
      <4>3. CASE g.on = "queue_bound"
        <5>1. g.queue \in BoundTo(g.exchange)
          BY <4>3 DEF Found
        <5>2. g.exchange \in DOMAIN exchanges /\ g.queue \in DOMAIN queues
          BY <5>1 DEF BoundTo, WaitInv, BrokerInv, BindingsResolve
        <5> QED BY <4>3, <5>1, <5>2
      <4> QED BY <3>2, <4>1, <4>2, <4>3
    <3> HIDE DEF Right
    <3> QED BY <3>3, <3>4, <3>5
  <2> HIDE DEF A
  <2> QED BY <2>2, <2>3 DEF WaitNext, Get
<1> QED BY <1>1, WaitInitial, WaitInductive, PTL DEF WaitSpec, AnswerIsForTarget

-----------------------------------------------------------------------------
(* The invariant *)

Code == {200, 204, 403, 404, 500, 504}

ClientStates ==
    {"IDLE", "SEND_BODY", "DONE", "MIGHT_SWITCH_PROTOCOL", "MUST_CLOSE", "ERROR"}

\* A response has been written exactly when the parser refuses another.
Written(w) ==
    /\ CanRespond(w) <=> written[w] = <<>>
    /\ Len(written[w]) <= 1

\* Bytes arrive for a request only, and no more of a body is parsed than was announced.
Received(w) ==
    /\ outgoing[w] # <<>> \/ arriving[w] # <<>> => call[w] # NoCall
    /\ IF call[w] = NoCall THEN parsed[w] = 0 ELSE parsed[w] <= call[w].pieces

\* A loop runs for a request, and has its head before it.
Serving(w) ==
    /\ w \in Waiters /\ call[w] # NoCall
    /\ their_state[w] = "IDLE" => receive_buffer[w] # <<>>

RequestInv ==
    /\ call \in [Waiters -> Calls \cup {NoCall}]
    /\ outgoing \in [Waiters -> Seq(Item)]
    /\ arriving \in [Waiters -> Seq(Item)]
    /\ receive_buffer \in [Waiters -> Seq(Item)]
    /\ parsed \in [Waiters -> Nat]
    /\ their_state \in [Waiters -> ClientStates]
    /\ our_state \in [Waiters -> {"SEND_RESPONSE", "SEND_BODY", "ERROR"}]
    /\ request_state \in [Waiters -> {"WAITING_HEADERS", "WAITING_BODY"}]
    /\ written \in [Waiters -> Seq(Code)]
    /\ hung_up \subseteq Waiters
    /\ serving # Free => Serving(serving)
    /\ \A w \in Waiters : Written(w) /\ Received(w)

HttpInv == WaitInv /\ RequestInv

-----------------------------------------------------------------------------
(* Requests *)

\* The targets name what the operations of the broker range over.
LEMMA ActionTyped ==
    ASSUME NEW a \in Action
    PROVE  /\ a.on \in {"queue", "create-queue", "add-message-in-queue"} => a.name \in Queues
           /\ a.on \in {"exchange", "create-exchange", "add-message-on"} => a.name \in Exchanges
           /\ a.on = "create-exchange" => a.type \in Types
           /\ a.on = "wait" => a.target \in Targets
           /\ a.on \in {"add-message-on", "add-message-in-queue"} => a.json \in Textual \cup {NoCall}
<1>1. CASE a \in [on : {"state", "unknown", "bad"}]
  BY <1>1
<1>2. CASE a \in [on : {"wait"}, target : Targets]
  BY <1>2
<1>3. CASE a \in [on : {"queue", "create-queue"}, name : Queues]
  BY <1>3
<1>4. CASE a \in [on : {"exchange"}, name : Exchanges]
  BY <1>4
<1>5. CASE a \in [on : {"create-exchange"}, name : Exchanges, type : Types]
  BY <1>5
<1>6. CASE a \in [on : {"add-message-on"}, name : Exchanges, json : Textual \cup {NoCall}]
  BY <1>6
<1>7. CASE a \in [on : {"add-message-in-queue"}, name : Queues, json : Textual \cup {NoCall}]
  BY <1>7
<1> QED BY <1>1, <1>2, <1>3, <1>4, <1>5, <1>6, <1>7 DEF Action

LEMMA CallTyped ==
    ASSUME NEW c \in Calls
    PROVE  /\ c.action \in Action /\ c.pieces \in Nat
           /\ c # NoCall
BY HttpAssumption DEF Call

\* What a handler publishes is a message (http_protocol.py:215-229).
LEMMA PublishedIsMessage ==
    ASSUME NEW w \in Waiters, call[w] \in Calls,
           NEW i \in 1 .. call[w].pieces, NEW j \in i .. call[w].pieces,
           call[w].action.on \in {"add-message-on", "add-message-in-queue"}
    PROVE  (IF IsBinary(call[w].action) THEN Slice(i, j) ELSE call[w].action.json) \in Messages
<1>1. CASE IsBinary(call[w].action)
  BY <1>1, HttpAssumption
<1>2. CASE ~IsBinary(call[w].action)
  <2>1. call[w].action.json \in Textual
    BY <1>2, CallTyped, ActionTyped DEF IsBinary
  <2> QED BY <1>2, <2>1, HttpAssumption
<1> QED BY <1>1, <1>2

-----------------------------------------------------------------------------
(* Answers *)

\* What a handler leaves of the responses, and of the loop it runs in.
Responded ==
    /\ our_state' \in [Waiters -> {"SEND_RESPONSE", "SEND_BODY", "ERROR"}]
    /\ written' \in [Waiters -> Seq(Code)]
    /\ \A v \in Waiters : Written(v)'
    /\ hung_up' \subseteq Waiters
    /\ serving' \in {serving, Free}

\* The parser's refusal keeps a second response from being written
\* (http_protocol.py:326-415).
LEMMA SendWrites ==
    ASSUME RequestInv, NEW w \in Waiters, NEW status \in Code, Send(w, status)
    PROVE  /\ our_state' \in [Waiters -> {"SEND_RESPONSE", "SEND_BODY", "ERROR"}]
           /\ written' \in [Waiters -> Seq(Code)]
           /\ \A v \in Waiters : Written(v)'
<1>1. /\ our_state \in [Waiters -> {"SEND_RESPONSE", "SEND_BODY", "ERROR"}]
      /\ written \in [Waiters -> Seq(Code)]
      /\ \A v \in Waiters : Written(v)
  BY DEF RequestInv
<1>2. CASE CanRespond(w)
  <2>1. /\ our_state' = [our_state EXCEPT ![w] = "SEND_BODY"]
        /\ written' = [written EXCEPT ![w] = Append(@, status)]
    BY <1>2 DEF Send
  <2>2. written[w] = <<>>
    BY <1>1, <1>2 DEF Written
  <2>3. written' = [written EXCEPT ![w] = <<status>>]
    BY <1>1, <2>1, <2>2
  <2>4. \A v \in Waiters \ {w} : written'[v] = written[v] /\ our_state'[v] = our_state[v]
    BY <1>1, <2>1, <2>3
  <2>5. our_state'[w] = "SEND_BODY" /\ written'[w] = <<status>>
    BY <1>1, <2>1, <2>3
  <2>6. <<status>> \in Seq(Code) /\ Len(<<status>>) = 1 /\ <<status>> # <<>>
    OBVIOUS
  <2>7. written' \in [Waiters -> Seq(Code)]
    BY <1>1, <2>3, <2>6
  <2>8. our_state' \in [Waiters -> {"SEND_RESPONSE", "SEND_BODY", "ERROR"}]
    BY <1>1, <2>1
  <2>9. Written(w)'
    BY <2>5, <2>6 DEF Written, CanRespond
  <2>10. ASSUME NEW v \in Waiters, v # w PROVE Written(v)'
    BY <1>1, <2>4, <2>10 DEF Written, CanRespond
  <2> QED BY <2>7, <2>8, <2>9, <2>10
<1>3. CASE ~CanRespond(w)
  <2>1. our_state' = [our_state EXCEPT ![w] = "ERROR"] /\ written' = written
    BY <1>3 DEF Send
  <2> QED BY <1>1, <1>3, <2>1 DEF Written, CanRespond
<1> QED BY <1>2, <1>3

LEMMA FailResponds ==
    ASSUME RequestInv, NEW w \in Waiters, Fail(w) PROVE Responded
<1>1. Send(w, 500) /\ serving' = Free /\ 500 \in Code
  BY DEF Fail, Code
<1>2. hung_up' \subseteq Waiters
  BY DEF Fail, RequestInv
<1> QED BY <1>1, <1>2, SendWrites DEF Responded

LEMMA AnswerResponds ==
    ASSUME RequestInv, NEW w \in Waiters, NEW status \in Code, Answer(w, status)
    PROVE  Responded
<1>1. CASE CanRespond(w)
  <2>1. Send(w, status) /\ serving' = serving /\ hung_up' \subseteq Waiters
    BY <1>1 DEF Answer, RequestInv
  <2> QED BY <2>1, SendWrites DEF Responded
<1>2. CASE ~CanRespond(w)
  BY <1>2, FailResponds DEF Answer
<1> QED BY <1>1, <1>2

LEMMA NoAnswerResponds ==
    ASSUME RequestInv, NoAnswer PROVE Responded
BY DEF RequestInv, NoAnswer, Responded, Written, CanRespond

-----------------------------------------------------------------------------
(* Handlers *)

\* GET (http_protocol.py:89-213) starts a wait or leaves the tables alone.
LEMMA GetHandled ==
    ASSUME RequestInv, NEW w \in Waiters, NEW a, _on_get(w, a)
    PROVE  [WaitNext]_waitVars /\ Responded
<1>1. 200 \in Code /\ 404 \in Code
  BY DEF Code
<1>2. CASE a.on = "wait"
  <2>1. Get(w) /\ NoAnswer
    BY <1>2 DEF _on_get
  <2> QED BY <2>1, NoAnswerResponds DEF WaitNext
<1>3. CASE a.on # "wait"
  <2>1. UNCHANGED waitVars
    BY <1>3 DEF _on_get
  <2>2. \/ Answer(w, 200) \/ Answer(w, 404) \/ Fail(w)
    BY <1>3 DEF _on_get, Inspect
  <2> QED BY <1>1, <2>1, <2>2, AnswerResponds, FailResponds
<1> QED BY <1>2, <1>3

\* DELETE (http_protocol.py:291-308) empties a queue or an exchange.
LEMMA DeleteHandled ==
    ASSUME RequestInv, NEW w \in Waiters, NEW a \in Action, _on_delete(w, a)
    PROVE  [WaitNext]_waitVars /\ Responded
<1>1. 204 \in Code /\ 404 \in Code
  BY DEF Code
<1>2. UNCHANGED <<closing, wait, answer>>
  BY DEF _on_delete
<1>3. CASE a.on = "queue"
  <2>1. delete_messages_of_queue(a.name) /\ Answer(w, 204) /\ a.name \in Queues
    BY <1>3, ActionTyped DEF _on_delete
  <2> QED BY <1>1, <1>2, <2>1, AnswerResponds DEF WaitNext, BrokerNext, Operation
<1>4. CASE a.on = "exchange"
  <2>1. delete_messages_of_exchange(a.name) /\ Answer(w, 204) /\ a.name \in Exchanges
    BY <1>4, ActionTyped DEF _on_delete
  <2> QED BY <1>1, <1>2, <2>1, AnswerResponds DEF WaitNext, BrokerNext, Operation
<1>5. CASE a.on \notin {"queue", "exchange"}
  <2>1. UNCHANGED tables /\ Answer(w, 404)
    BY <1>5 DEF _on_delete
  <2> QED BY <1>1, <1>2, <2>1, AnswerResponds DEF waitVars, brokerVars, tables
<1> QED BY <1>3, <1>4, <1>5

\* add-message-on and add-message-in-queue (http_protocol.py:231-267) publish once.
LEMMA AddMessageHandled ==
    ASSUME RequestInv, NEW w \in Waiters, NEW a \in Action, NEW m \in Messages,
           NEW t \in DeliveryTags, UNCHANGED <<closing, wait, answer>>,
           \/ a.on = "add-message-on" /\ add_message_on(w, a.name, m, t)
           \/ a.on = "add-message-in-queue" /\ add_message_in_queue(w, a.name, m, t)
    PROVE  [WaitNext]_waitVars /\ Responded
<1>1. 200 \in Code /\ 404 \in Code
  BY DEF Code
<1>2. ASSUME NEW q, Offered(w, q, m) PROVE Responded
  <2>1. Fail(w) \/ Answer(w, 404) \/ Answer(w, 200)
    BY <1>2 DEF Offered
  <2> QED BY <1>1, <2>1, FailResponds, AnswerResponds
<1>3. CASE a.on = "add-message-on" /\ add_message_on(w, a.name, m, t)
  <2>1. a.name \in Exchanges
    BY <1>3, ActionTyped
  <2>2. publish_message(a.name, m, t) /\ Responded
    <3>1. CASE a.name \in DOMAIN exchanges /\ BoundTo(a.name) # {}
      BY <1>2, <1>3, <3>1 DEF add_message_on, publish_message
    <3>2. CASE ~(a.name \in DOMAIN exchanges /\ BoundTo(a.name) # {})
      BY <1>1, <1>3, <3>2, AnswerResponds DEF add_message_on
    <3> QED BY <3>1, <3>2
  <2> QED BY <2>1, <2>2 DEF WaitNext, BrokerNext, Operation
<1>4. CASE a.on = "add-message-in-queue" /\ add_message_in_queue(w, a.name, m, t)
  <2>1. a.name \in Queues
    BY <1>4, ActionTyped
  <2>2. publish_message_in_queue(a.name, m, t)
    BY <1>4 DEF add_message_in_queue
  <2>3. Offered(w, a.name, m) \/ Answer(w, 404)
    BY <1>4 DEF add_message_in_queue
  <2>4. Responded
    BY <1>1, <1>2, <2>3, AnswerResponds
  <2> QED BY <2>1, <2>2, <2>4 DEF WaitNext, BrokerNext, Operation
<1> QED BY <1>3, <1>4

\* POST (http_protocol.py:231-289), given some of the pieces of a body.
LEMMA PostHandled ==
    ASSUME RequestInv, NEW w \in Waiters, call[w] \in Calls,
           NEW i \in 1 .. call[w].pieces, NEW j \in i .. call[w].pieces,
           _on_post(w, call[w].action, i, j)
    PROVE  [WaitNext]_waitVars /\ Responded
<1> DEFINE a == call[w].action
           m == IF IsBinary(a) THEN Slice(i, j) ELSE a.json
           cut == ~IsBinary(a) /\ Slice(i, j) # Slice(1, call[w].pieces)
           Adding == {"add-message-on", "add-message-in-queue"}
<1>1. 200 \in Code /\ 404 \in Code
  BY DEF Code
<1>2. UNCHANGED <<closing, wait, answer>> /\ a \in Action
  BY CallTyped DEF _on_post
<1>3. CASE a.on \in Adding /\ cut
  <2>1. UNCHANGED tables /\ Fail(w)
    BY <1>3 DEF _on_post
  <2> QED BY <1>2, <2>1, FailResponds DEF waitVars, brokerVars, tables
<1>4. CASE a.on \in Adding /\ ~cut
  <2>1. m \in Messages
    BY <1>4, PublishedIsMessage
  <2>2. PICK t \in DeliveryTags :
            \/ a.on = "add-message-on" /\ add_message_on(w, a.name, m, t)
            \/ a.on = "add-message-in-queue" /\ add_message_in_queue(w, a.name, m, t)
    BY <1>4 DEF _on_post
  <2> HIDE DEF m, a
  <2> QED BY <1>2, <2>1, <2>2, AddMessageHandled
<1>5. CASE a.on = "create-exchange"
  <2>1. declare_exchange(a.name, a.type) /\ Answer(w, 200)
    BY <1>5 DEF _on_post
  <2>2. a.name \in Exchanges /\ a.type \in Types
    BY <1>2, <1>5, ActionTyped
  <2> QED BY <1>1, <1>2, <2>1, <2>2, AnswerResponds DEF WaitNext, BrokerNext, Operation
<1>6. CASE a.on = "create-queue"
  <2>1. declare_queue(a.name) /\ Answer(w, 200)
    BY <1>6 DEF _on_post
  <2>2. a.name \in Queues
    BY <1>2, <1>6, ActionTyped
  <2> QED BY <1>1, <1>2, <2>1, <2>2, AnswerResponds DEF WaitNext, BrokerNext, Operation
<1>7. CASE a.on \notin Adding \cup {"create-exchange", "create-queue"}
  <2>1. UNCHANGED tables /\ (Fail(w) \/ Answer(w, 404))
    BY <1>7 DEF _on_post
  <2> QED BY <1>1, <1>2, <2>1, FailResponds, AnswerResponds DEF waitVars, brokerVars, tables
<1> QED BY <1>3, <1>4, <1>5, <1>6, <1>7

-----------------------------------------------------------------------------
(* Steps *)

\* The AMQP side, between two callbacks (protocol.py): an operation, or a hang-up.
LEMMA WorkerStep == Worker => WaitNext
BY HttpAssumption DEF Worker, WaitNext, BrokerNext, Operation

\* What the parser is in when it yields an event.
LEMMA EventState ==
    ASSUME RequestInv, NEW w \in Waiters, NEW event, On(w, event)
    PROVE  /\ serving = w /\ serving # Free /\ call[w] \in Calls
           /\ event = "Request" => their_state[w] = "IDLE" /\ receive_buffer[w] # <<>>
           /\ event \in {"Data", "EndOfMessage"} => their_state[w] = "SEND_BODY"
           /\ event = "Data" => parsed[w] # call[w].pieces /\ receive_buffer[w] # <<>>
<1>1. serving = w /\ serving # Free /\ event = NextEvent(w)
  BY HttpAssumption DEF On
<1>2. call[w] \in Calls /\ (their_state[w] = "IDLE" => receive_buffer[w] # <<>>)
  BY <1>1 DEF RequestInv, Serving
<1>3. their_state[w] \in ClientStates
  BY DEF RequestInv
<1>4. CASE their_state[w] = "IDLE"
  <2>1. event \in {"Request", "RemoteProtocolError"}
    BY <1>1, <1>4 DEF NextEvent
  <2> QED BY <1>1, <1>2, <1>4, <2>1
<1>5. CASE their_state[w] = "SEND_BODY"
  <2>1. event = IF parsed[w] = call[w].pieces THEN "EndOfMessage"
                ELSE IF receive_buffer[w] = <<>> THEN "NEED_DATA" ELSE "Data"
    BY <1>1, <1>5 DEF NextEvent
  <2> QED BY <1>1, <1>2, <1>5, <2>1
<1>6. CASE their_state[w] = "DONE"
  <2>1. event \in {"NEED_DATA", "PAUSED"}
    BY <1>1, <1>6 DEF NextEvent
  <2> QED BY <1>1, <1>2, <2>1
<1>7. CASE their_state[w] = "MUST_CLOSE"
  <2>1. event \in {"NEED_DATA", "RemoteProtocolError"}
    BY <1>1, <1>7 DEF NextEvent
  <2> QED BY <1>1, <1>2, <2>1
<1>8. CASE their_state[w] = "ERROR"
  <2>1. event = "RemoteProtocolError"
    BY <1>1, <1>8 DEF NextEvent
  <2> QED BY <1>1, <1>2, <2>1
<1>9. CASE their_state[w] = "MIGHT_SWITCH_PROTOCOL"
  <2>1. event = "PAUSED"
    BY <1>1, <1>9 DEF NextEvent
  <2> QED BY <1>1, <1>2, <2>1
<1> QED BY <1>3, <1>4, <1>5, <1>6, <1>7, <1>8, <1>9 DEF ClientStates

\* The first turn for a request: its handler, or none (http_protocol.py:50-69).
LEMMA RequestStep ==
    ASSUME RequestInv, NEW w \in Waiters, OnRequest(w)
    PROVE  [WaitNext]_waitVars /\ RequestInv'
<1> DEFINE c == call[w]
<1>1. /\ c \in Calls /\ c # NoCall /\ serving = w /\ serving # Free
      /\ receive_buffer[w] # <<>>
  BY EventState, CallTyped DEF OnRequest
<1>2. [WaitNext]_waitVars /\ Responded
  <2>1. CASE c.method = "MOCK_FLUSH"
    <3>1. reset /\ Answer(w, 204) /\ UNCHANGED <<closing, wait, answer>> /\ 204 \in Code
      BY <2>1 DEF OnRequest, Code
    <3> QED BY <3>1, AnswerResponds DEF WaitNext, BrokerNext, Operation
  <2>2. CASE c.method = "GET"
    <3>1. _on_get(w, c.action)
      BY <2>2 DEF OnRequest
    <3> QED BY <3>1, GetHandled
  <2>3. CASE c.method = "DELETE"
    <3>1. _on_delete(w, c.action) /\ c.action \in Action
      BY <1>1, <2>3, CallTyped DEF OnRequest
    <3> QED BY <3>1, DeleteHandled
  <2>4. CASE c.method \notin {"MOCK_FLUSH", "GET", "DELETE"}
    <3>1. NoAnswer /\ UNCHANGED waitVars
      BY <2>4 DEF OnRequest
    <3> QED BY <3>1, NoAnswerResponds
  <2> QED BY <2>1, <2>2, <2>3, <2>4
<1>3. /\ UNCHANGED <<call, outgoing, arriving, parsed>>
      /\ receive_buffer' = [receive_buffer EXCEPT ![w] = Tail(@)]
      /\ their_state' = [their_state EXCEPT ![w] = "SEND_BODY"]
  BY DEF OnRequest, clientVars
<1>4. receive_buffer[w] \in Seq(Item) /\ receive_buffer[w] # <<>>
  BY <1>1 DEF RequestInv
<1>5. /\ receive_buffer' \in [Waiters -> Seq(Item)]
      /\ their_state' \in [Waiters -> ClientStates]
      /\ their_state'[w] = "SEND_BODY"
      /\ request_state' \in [Waiters -> {"WAITING_HEADERS", "WAITING_BODY"}]
  <2>1. Tail(receive_buffer[w]) \in Seq(Item)
    BY <1>4
  <2>2. request_state' \in [Waiters -> {"WAITING_HEADERS", "WAITING_BODY"}]
    BY DEF RequestInv, OnRequest
  <2> QED BY <1>3, <2>1, <2>2 DEF RequestInv, ClientStates
<1>6. serving' # Free => Serving(serving)'
  BY <1>1, <1>2, <1>3, <1>5 DEF Responded, Serving
<1>7. \A v \in Waiters : Received(v)'
  BY <1>3 DEF RequestInv, Received
<1> QED BY <1>2, <1>3, <1>5, <1>6, <1>7 DEF RequestInv, Responded

\* A turn for a part of a body: its handler, or none (http_protocol.py:71-80).
LEMMA DataStep ==
    ASSUME RequestInv, NEW w \in Waiters, OnData(w)
    PROVE  [WaitNext]_waitVars /\ RequestInv'
<1> DEFINE c == call[w]
           to == parsed[w] + Pieces(w)
<1>1. /\ c \in Calls /\ c # NoCall /\ serving = w /\ serving # Free
      /\ their_state[w] = "SEND_BODY" /\ parsed[w] # c.pieces /\ receive_buffer[w] # <<>>
  BY EventState, CallTyped DEF OnData
<1>2. /\ parsed[w] \in Nat /\ c.pieces \in Nat /\ parsed[w] < c.pieces
      /\ receive_buffer[w] \in Seq(Item) /\ Len(receive_buffer[w]) \in Nat \ {0}
  <2>1. receive_buffer[w] \in Seq(Item) /\ parsed[w] \in Nat /\ parsed[w] <= c.pieces
    BY <1>1 DEF RequestInv, Received
  <2>2. c.pieces \in Nat
    BY <1>1, CallTyped
  <2> QED BY <1>1, <2>1, <2>2
<1>3. Pieces(w) \in 1 .. c.pieces - parsed[w] /\ Pieces(w) <= Len(receive_buffer[w])
  BY <1>2 DEF Pieces
<1>4. parsed[w] + 1 \in 1 .. c.pieces /\ to \in parsed[w] + 1 .. c.pieces
  BY <1>2, <1>3
<1>5. [WaitNext]_waitVars /\ Responded
  <2>1. CASE NoAnswer /\ UNCHANGED waitVars
    BY <2>1, NoAnswerResponds
  <2>2. CASE _on_post(w, c.action, parsed[w] + 1, to)
    <3> HIDE DEF to
    <3> QED BY <1>1, <1>4, <2>2, PostHandled
  <2>3. CASE _on_put(w)
    <3>1. Answer(w, 404) /\ UNCHANGED waitVars /\ 404 \in Code
      BY <2>3 DEF _on_put, Code
    <3> QED BY <3>1, AnswerResponds
  <2> QED BY <2>1, <2>2, <2>3 DEF OnData
<1>6. /\ UNCHANGED <<call, outgoing, arriving, their_state, request_state>>
      /\ receive_buffer' = [receive_buffer EXCEPT ![w] = SubSeq(@, Pieces(w) + 1, Len(@))]
      /\ parsed' = [parsed EXCEPT ![w] = to]
  BY DEF OnData, clientVars
<1>7. receive_buffer' \in [Waiters -> Seq(Item)] /\ parsed' \in [Waiters -> Nat]
  <2>1. SubSeq(receive_buffer[w], Pieces(w) + 1, Len(receive_buffer[w])) \in Seq(Item)
    BY <1>2, <1>3
  <2>2. to \in Nat
    BY <1>2, <1>4
  <2> HIDE DEF to
  <2> QED BY <1>6, <2>1, <2>2 DEF RequestInv
<1>8. serving' # Free => Serving(serving)'
  BY <1>1, <1>5, <1>6 DEF Responded, Serving
<1>9. \A v \in Waiters : Received(v)'
  <2>1. parsed'[w] = to /\ to <= c.pieces
    BY <1>4, <1>6 DEF RequestInv
  <2>2. \A v \in Waiters \ {w} : parsed'[v] = parsed[v]
    BY <1>6 DEF RequestInv
  <2> HIDE DEF to
  <2> QED BY <1>1, <1>6, <2>1, <2>2 DEF RequestInv, Received
<1> QED BY <1>5, <1>6, <1>7, <1>8, <1>9 DEF RequestInv, Responded

\* The turns that reach no handler (http_protocol.py:48, 82-87).
LEMMA OtherTurnStep ==
    ASSUME RequestInv, NEW w \in Waiters,
           OnEndOfMessage(w) \/ OnNeedData(w) \/ OnRemoteProtocolError(w)
    PROVE  UNCHANGED waitVars /\ RequestInv'
<1>1. CASE OnEndOfMessage(w)
  <2>1. call[w] # NoCall /\ serving = w /\ Responded
    BY <1>1, EventState, CallTyped, NoAnswerResponds DEF OnEndOfMessage
  <2>2. /\ UNCHANGED <<waitVars, call, outgoing, arriving, receive_buffer, parsed>>
        /\ their_state' = [their_state EXCEPT ![w] = EndState(w)]
        /\ EndState(w) \in {"DONE", "MIGHT_SWITCH_PROTOCOL", "MUST_CLOSE"}
    BY <1>1 DEF OnEndOfMessage, clientVars, EndState
  <2>3. /\ their_state' \in [Waiters -> ClientStates]
        /\ their_state'[w] # "IDLE"
        /\ request_state' \in [Waiters -> {"WAITING_HEADERS", "WAITING_BODY"}]
    BY <1>1, <2>2 DEF RequestInv, OnEndOfMessage, ClientStates
  <2>4. serving' # Free => Serving(serving)'
    BY <2>1, <2>2, <2>3 DEF Responded, Serving
  <2> QED BY <2>1, <2>2, <2>3, <2>4 DEF RequestInv, Responded, Received
<1>2. CASE OnNeedData(w)
  BY <1>2 DEF OnNeedData, clientVars, parserVars, RequestInv, Written, CanRespond, Received
<1>3. CASE OnRemoteProtocolError(w)
  <2>1. Responded /\ serving' = Free
    BY <1>3, FailResponds DEF OnRemoteProtocolError, Fail
  <2>2. /\ UNCHANGED <<waitVars, call, outgoing, arriving, receive_buffer, parsed, request_state>>
        /\ their_state' = [their_state EXCEPT ![w] = "ERROR"]
    BY <1>3 DEF OnRemoteProtocolError, clientVars, parserVars
  <2> QED BY <2>1, <2>2 DEF RequestInv, Responded, Received, ClientStates
<1> QED BY <1>1, <1>2, <1>3

\* Bytes come in, and the loop over their events starts (http_protocol.py:36-42).
LEMMA ReceiveStep ==
    ASSUME RequestInv, NEW w \in Waiters, data_received(w)
    PROVE  UNCHANGED waitVars /\ RequestInv'
<1>1. /\ UNCHANGED <<waitVars, call, outgoing, parsed, their_state, our_state, written,
                      request_state, hung_up>>
      /\ receive_buffer' = [receive_buffer EXCEPT ![w] = @ \o arriving[w]]
      /\ arriving' = [arriving EXCEPT ![w] = <<>>]
      /\ serving' = w /\ arriving[w] # <<>>
  BY DEF data_received, clientVars
<1>2. /\ receive_buffer[w] \in Seq(Item) /\ arriving[w] \in Seq(Item)
      /\ call[w] # NoCall
  BY <1>1 DEF RequestInv, Received
<1>3. receive_buffer[w] \o arriving[w] \in Seq(Item)
      /\ receive_buffer[w] \o arriving[w] # <<>>
  <2>1. Len(arriving[w]) # 0
    BY <1>1, <1>2
  <2> QED BY <1>2, <2>1
<1>4. /\ receive_buffer' \in [Waiters -> Seq(Item)] /\ receive_buffer'[w] # <<>>
      /\ arriving' \in [Waiters -> Seq(Item)]
  BY <1>1, <1>3 DEF RequestInv
<1>5. \A v \in Waiters : arriving'[v] # <<>> => arriving[v] # <<>>
  BY <1>1 DEF RequestInv
<1>6. Serving(w)'
  BY <1>1, <1>2, <1>4 DEF Serving
<1> QED BY <1>1, <1>4, <1>5, <1>6 DEF RequestInv, Written, CanRespond, Received

LEMMA WireTyped == ASSUME NEW c \in Calls PROVE Wire(c) \in Seq(Item)
<1>1. [i \in 1 .. c.pieces |-> "PIECE"] \in Seq(Item)
  BY CallTyped DEF Item
<1>2. (IF c.more THEN <<"MORE">> ELSE <<>>) \in Seq(Item)
  <2>1. <<"MORE">> \in Seq(Item) /\ <<>> \in Seq(Item)
    BY DEF Item
  <2> QED BY <2>1, Zenon
<1>3. \A s, t \in Seq(Item) : s \o t \in Seq(Item)
  OBVIOUS
<1> QED BY <1>1, <1>2, <1>3, Zenon DEF Wire

\* The test makes a request, sends more of it, or goes away.
LEMMA ClientStep ==
    ASSUME RequestInv, NEW w \in Waiters, MakeRequest(w) \/ Transmit(w) \/ Leave(w)
    PROVE  UNCHANGED waitVars /\ RequestInv'
<1>1. CASE MakeRequest(w)
  <2>1. PICK c \in Calls : /\ call' = [call EXCEPT ![w] = c]
                          /\ outgoing' = [outgoing EXCEPT ![w] = Wire(c)]
    BY <1>1 DEF MakeRequest
  <2>2. /\ UNCHANGED <<waitVars, receive_buffer, parsed, their_state, our_state, written,
                        request_state, hung_up>>
        /\ arriving' = [arriving EXCEPT ![w] = <<"HEAD">>]
        /\ call[w] = NoCall /\ serving' = Free /\ serving = Free
    BY <1>1 DEF MakeRequest, parserVars
  <2>3. <<"HEAD">> \in Seq(Item)
    BY DEF Item
  <2>4. /\ arriving' \in [Waiters -> Seq(Item)] /\ call' \in [Waiters -> Calls \cup {NoCall}]
        /\ outgoing' \in [Waiters -> Seq(Item)]
    BY <2>1, <2>2, <2>3, WireTyped DEF RequestInv
  <2>5. call'[w] = c /\ c # NoCall /\ parsed'[w] = 0 /\ c.pieces \in Nat
    BY <2>1, <2>2, CallTyped DEF RequestInv, Received
  <2>6. \A v \in Waiters \ {w} : /\ call'[v] = call[v] /\ arriving'[v] = arriving[v]
                                 /\ outgoing'[v] = outgoing[v]
    BY <2>1, <2>2 DEF RequestInv
  <2>7. \A v \in Waiters : Received(v)'
    BY <2>2, <2>5, <2>6 DEF RequestInv, Received
  <2> QED BY <2>2, <2>4, <2>7 DEF RequestInv, Written, CanRespond
<1>2. CASE Transmit(w)
  <2>1. /\ UNCHANGED <<waitVars, call, receive_buffer, parsed, their_state, our_state, written,
                        request_state, hung_up>>
        /\ arriving' = [arriving EXCEPT ![w] = Append(@, Head(outgoing[w]))]
        /\ outgoing' = [outgoing EXCEPT ![w] = Tail(@)]
        /\ outgoing[w] # <<>> /\ serving' = Free /\ serving = Free
    BY <1>2 DEF Transmit, parserVars
  <2>2. Head(outgoing[w]) \in Item /\ Tail(outgoing[w]) \in Seq(Item) /\ call[w] # NoCall
    BY <2>1 DEF RequestInv, Received
  <2>3. arriving' \in [Waiters -> Seq(Item)] /\ outgoing' \in [Waiters -> Seq(Item)]
    BY <2>1, <2>2 DEF RequestInv
  <2>4. \A v \in Waiters : Received(v)'
    BY <2>1, <2>2 DEF RequestInv, Received
  <2> QED BY <2>1, <2>3, <2>4 DEF RequestInv, Written, CanRespond
<1>3. CASE Leave(w)
  BY <1>3 DEF Leave, clientVars, parserVars, RequestInv, Written, CanRespond, Received, Serving
<1> QED BY <1>1, <1>2, <1>3

\* A wait that ends is answered through the parser (http_protocol.py:314-324).
LEMMA AnswerStep ==
    ASSUME RequestInv, WaitTypeOK, NEW w \in Waiters, PollAndAnswer(w)
    PROVE  WaitNext /\ RequestInv'
<1>1. WaitNext /\ WaitTypeOK'
  BY PollTyped DEF PollAndAnswer, WaitNext
<1>2. /\ UNCHANGED <<call, outgoing, arriving, receive_buffer, parsed, request_state, hung_up>>
      /\ serving' = Free
  BY DEF PollAndAnswer, clientVars, parserVars
<1>3. CASE answer'[w] = answer[w]
  BY <1>1, <1>2, <1>3 DEF PollAndAnswer, RequestInv, Written, CanRespond, Received
<1>4. CASE answer'[w] # answer[w]
  <2>1. answer'[w] \in {204, 403, 504}
    BY <1>1, <1>4 DEF WaitTypeOK, PollAndAnswer, Poll, Waiting, Answered
  <2>2. Send(w, answer'[w]) /\ answer'[w] \in Code
    BY <1>4, <2>1 DEF PollAndAnswer, Code
  <2>3. their_state' = [their_state EXCEPT ![w] =
                            IF @ \in {"DONE", "MIGHT_SWITCH_PROTOCOL"}
                            THEN "MUST_CLOSE" ELSE @]
    BY <1>4 DEF PollAndAnswer
  <2> QED BY <1>1, <1>2, <2>2, <2>3, SendWrites DEF RequestInv, Received, ClientStates
<1> QED BY <1>3, <1>4

LEMMA RequestInitial == HttpInit => RequestInv
BY DEF HttpInit, RequestInv, ClientStates, Written, CanRespond, Received

\* Each step keeps RequestInv, and is one of the waits, one of the broker, or none.
LEMMA HttpStep ==
    HttpInv /\ [HttpNext]_httpAll => [WaitNext]_waitVars /\ RequestInv'
<1> SUFFICES ASSUME HttpInv, [HttpNext]_httpAll
             PROVE  [WaitNext]_waitVars /\ RequestInv'
  OBVIOUS
<1>1. RequestInv /\ WaitTypeOK
  BY DEF HttpInv, WaitInv
<1>2. CASE UNCHANGED httpAll
  BY <1>1, <1>2 DEF httpAll, httpVars, clientVars, parserVars, RequestInv, Written,
                    CanRespond, Received, Serving
<1>3. CASE Worker
  <2>1. UNCHANGED httpVars
    BY <1>3 DEF Worker
  <2> QED BY <1>1, <1>3, <2>1, WorkerStep
          DEF httpVars, clientVars, parserVars, RequestInv, Written, CanRespond, Received,
              Serving
<1>4. ASSUME NEW w \in Waiters, MakeRequest(w) \/ Transmit(w) \/ Leave(w)
      PROVE  [WaitNext]_waitVars /\ RequestInv'
  BY <1>1, <1>4, ClientStep
<1>5. ASSUME NEW w \in Waiters, data_received(w)
      PROVE  [WaitNext]_waitVars /\ RequestInv'
  BY <1>1, <1>5, ReceiveStep
<1>6. ASSUME NEW w \in Waiters, Turn(w)
      PROVE  [WaitNext]_waitVars /\ RequestInv'
  BY <1>1, <1>6, RequestStep, DataStep, OtherTurnStep DEF Turn
<1>7. ASSUME NEW w \in Waiters, PollAndAnswer(w)
      PROVE  [WaitNext]_waitVars /\ RequestInv'
  BY <1>1, <1>7, AnswerStep
<1> QED BY <1>2, <1>3, <1>4, <1>5, <1>6, <1>7 DEF HttpNext

-----------------------------------------------------------------------------
(* Theorems *)

\* Requests are read whole and in step with the parser's states, whatever segments
\* they come in (http_protocol.py:36-87), and the tables keep their own invariant.
THEOREM HttpInvariant == HttpSpec => []HttpInv
<1>1. HttpInit => HttpInv
  BY RequestInitial, WaitInitial DEF HttpInit, HttpInv
<1>2. HttpInv /\ [HttpNext]_httpAll => HttpInv'
  BY HttpStep, WaitInductive DEF HttpInv
<1> QED BY <1>1, <1>2, PTL DEF HttpSpec

\* No connection is written two answers, although the parts of a body, a late wait
\* and the except branch (http_protocol.py:42-46) may each try.
THEOREM OneAnswerAlways == HttpSpec => []OneAnswer
<1>1. HttpInv => OneAnswer
  BY DEF HttpInv, RequestInv, Written, OneAnswer
<1> QED BY <1>1, HttpInvariant, PTL

\* HTTPProtocol starts waits and calls State (http_protocol.py:89-308) in no other way
\* than WaitLoops and BrokerState allow.
THEOREM HttpImplementsWaits == HttpSpec => WaitSpec
<1>1. HttpInit => WaitInit
  BY DEF HttpInit
<1>2. HttpInv /\ [HttpNext]_httpAll => [WaitNext]_waitVars
  BY HttpStep
<1> QED BY <1>1, <1>2, HttpInvariant, PTL DEF HttpSpec, WaitSpec

\* So what the waits promise holds behind HTTP: a success written by _on_get_done
\* (http_protocol.py:314-324) is for the settlement the request asked for.
THEOREM HttpAnswersForTarget == HttpSpec => AnswerIsForTarget
BY HttpImplementsWaits, AnswerAlwaysForTarget, PTL

-----------------------------------------------------------------------------
(* The bytes of a request, wherever they are *)

Whole(c) == <<"HEAD">> \o Wire(c)

Rest(w) == receive_buffer[w] \o arriving[w] \o outgoing[w]

From(s, i) == SubSeq(s, i, Len(s))

\* Nothing is there before a request; of a request, what the parser has not taken
\* is there, in the order it was made.
Kept(w) ==
    /\ call[w] = NoCall => receive_buffer[w] = <<>> /\ their_state[w] = "IDLE"
    /\ call[w] # NoCall => Rest(w) = From(Whole(call[w]), Taken(w) + 1)
    /\ their_state[w] = "IDLE" => parsed[w] = 0
    /\ call[w] # NoCall /\ call[w].method = "MALFORMED" =>
          their_state[w] \in {"IDLE", "ERROR"}

LEMMA WholeTyped == ASSUME NEW c \in Calls PROVE Whole(c) \in Seq(Item)
<1>1. <<"HEAD">> \in Seq(Item)
  BY DEF Item
<1> QED BY <1>1, WireTyped, ConcatProperties DEF Whole

\* Taking from the first of two sequences is taking from the two.
LEMMA DropOfConcat ==
    ASSUME NEW S, NEW s \in Seq(S), NEW t \in Seq(S), NEW k \in 0 .. Len(s)
    PROVE  From(s, k + 1) \o t = From(s \o t, k + 1)
<1> DEFINE a == From(s, k + 1)
           b == From(s \o t, k + 1)
<1>1. Len(s) \in Nat /\ Len(t) \in Nat
  OBVIOUS
<1>2. /\ s \o t \in Seq(S) /\ Len(s \o t) = Len(s) + Len(t)
      /\ \A i \in 1 .. Len(s) + Len(t) : (s \o t)[i] = IF i <= Len(s) THEN s[i] ELSE t[i - Len(s)]
  BY ConcatProperties
<1>3. /\ a \in Seq(S) /\ Len(a) = Len(s) - k
      /\ \A i \in 1 .. Len(s) - k : a[i] = s[k + i]
  BY <1>1 DEF From
<1>4. /\ b \in Seq(S) /\ Len(b) = Len(s) + Len(t) - k
      /\ \A i \in 1 .. Len(s) + Len(t) - k : b[i] = (s \o t)[k + i]
  BY <1>1, <1>2 DEF From
<1> HIDE DEF a, b
<1>5. /\ a \o t \in Seq(S) /\ Len(a \o t) = Len(s) + Len(t) - k
      /\ \A i \in 1 .. Len(s) + Len(t) - k :
            (a \o t)[i] = IF i <= Len(s) - k THEN a[i] ELSE t[i - (Len(s) - k)]
  <2>1. /\ a \o t \in Seq(S) /\ Len(a \o t) = Len(a) + Len(t)
        /\ \A i \in 1 .. Len(a) + Len(t) :
              (a \o t)[i] = IF i <= Len(a) THEN a[i] ELSE t[i - Len(a)]
    BY <1>3, ConcatProperties
  <2>2. Len(a) = Len(s) - k /\ Len(a) + Len(t) = Len(s) + Len(t) - k
    BY <1>1, <1>3
  <2> QED BY <2>1, <2>2
<1>6. ASSUME NEW i \in 1 .. Len(s) + Len(t) - k PROVE (a \o t)[i] = b[i]
  <2>1. b[i] = (s \o t)[k + i] /\ k + i \in 1 .. Len(s) + Len(t)
    BY <1>1, <1>4
  <2>2. CASE i <= Len(s) - k
    BY <1>1, <1>2, <1>3, <1>5, <2>1, <2>2
  <2>3. CASE ~(i <= Len(s) - k)
    <3>1. (a \o t)[i] = t[i - (Len(s) - k)]
      BY <1>5, <2>3
    <3>2. (s \o t)[k + i] = t[k + i - Len(s)]
      BY <1>1, <1>2, <2>1, <2>3
    <3>3. i - (Len(s) - k) = k + i - Len(s)
      BY <1>1
    <3> QED BY <2>1, <3>1, <3>2, <3>3
  <2> QED BY <2>2, <2>3
<1>7. a \o t = b
  BY <1>4, <1>5, <1>6, SeqEqual
<1> QED BY <1>7 DEF a, b

\* Taking twice is taking as much at once.
LEMMA DropTwice ==
    ASSUME NEW S, NEW s \in Seq(S), NEW i \in Nat, NEW k \in 0 .. Len(From(s, i + 1))
    PROVE  From(From(s, i + 1), k + 1) = From(s, i + k + 1)
<1> DEFINE a == From(s, i + 1)
           b == From(a, k + 1)
           c == From(s, i + k + 1)
<1>1. Len(s) \in Nat
  OBVIOUS
<1>2. /\ a \in Seq(S) /\ Len(a) = IF i + 1 <= Len(s) THEN Len(s) - i ELSE 0
      /\ \A j \in 1 .. Len(s) - i : a[j] = s[i + j]
  BY <1>1 DEF From
<1>3. /\ c \in Seq(S) /\ Len(c) = IF i + k + 1 <= Len(s) THEN Len(s) - i - k ELSE 0
      /\ \A j \in 1 .. Len(s) - i - k : c[j] = s[i + k + j]
  BY <1>1, <1>2, SMTT(60) DEF From
<1>4. k \in 0 .. Len(a)
  OBVIOUS
<1> HIDE DEF a, c
<1>5. /\ b \in Seq(S) /\ Len(b) = Len(a) - k
      /\ \A j \in 1 .. Len(a) - k : b[j] = a[k + j]
  BY <1>2, <1>4 DEF From
<1> HIDE DEF b
<1>6. Len(b) = Len(c) /\ \A j \in 1 .. Len(b) : b[j] = c[j]
  BY <1>1, <1>2, <1>3, <1>4, <1>5
<1>7. b = c
  BY <1>3, <1>5, <1>6, SeqEqual
<1> QED BY <1>7 DEF a, b, c

\* What the parser takes from its buffer is taken from the request.
LEMMA TakingKeeps ==
    ASSUME RequestInv, NEW w \in Waiters, call[w] \in Calls, Kept(w),
           NEW k \in 0 .. Len(receive_buffer[w]), Taken(w) \in Nat
    PROVE  From(receive_buffer[w], k + 1) \o arriving[w] \o outgoing[w]
              = From(Whole(call[w]), Taken(w) + k + 1)
<1> DEFINE rb == receive_buffer[w]
           W == Whole(call[w])
<1>1. /\ rb \in Seq(Item) /\ arriving[w] \in Seq(Item) /\ outgoing[w] \in Seq(Item)
      /\ W \in Seq(Item)
  BY WholeTyped DEF RequestInv
<1>2. Rest(w) = From(W, Taken(w) + 1)
  BY CallTyped DEF Kept
<1>3. /\ rb \o arriving[w] \in Seq(Item) /\ Len(rb \o arriving[w]) = Len(rb) + Len(arriving[w])
      /\ Len(rb) \in Nat /\ Len(arriving[w]) \in Nat /\ Len(outgoing[w]) \in Nat
      /\ Len(Rest(w)) = Len(rb) + Len(arriving[w]) + Len(outgoing[w])
  BY <1>1 DEF Rest
<1>4. k \in 0 .. Len(rb \o arriving[w]) /\ k \in 0 .. Len(Rest(w))
  <2>1. \A i, j, l \in Nat : k \in 0 .. i => k \in 0 .. i + j /\ k \in 0 .. i + j + l
    OBVIOUS
  <2>2. k \in 0 .. Len(rb)
    OBVIOUS
  <2>3. /\ k \in 0 .. Len(rb) + Len(arriving[w])
        /\ k \in 0 .. Len(rb) + Len(arriving[w]) + Len(outgoing[w])
    BY <1>3, <2>1, <2>2
  <2> QED BY <1>3, <2>3, Zenon
<1>5. From(rb, k + 1) \o arriving[w] = From(rb \o arriving[w], k + 1)
  BY <1>1, DropOfConcat
<1>6. From(rb \o arriving[w], k + 1) \o outgoing[w] = From(Rest(w), k + 1)
  BY <1>1, <1>3, <1>4, DropOfConcat DEF Rest
<1>7. From(Rest(w), k + 1) = From(W, Taken(w) + k + 1)
  <2> HIDE DEF W
  <2>1. k \in 0 .. Len(From(W, Taken(w) + 1))
    BY <1>2, <1>4
  <2>2. From(From(W, Taken(w) + 1), k + 1) = From(W, Taken(w) + k + 1)
    BY <1>1, <2>1, DropTwice
  <2> QED BY <1>2, <2>2
<1> QED BY <1>5, <1>6, <1>7

\* A step that leaves a connection and its parser alone keeps its bytes.
LEMMA Untouched ==
    ASSUME NEW w \in Waiters, Kept(w),
           call'[w] = call[w], outgoing'[w] = outgoing[w], arriving'[w] = arriving[w],
           receive_buffer'[w] = receive_buffer[w], parsed'[w] = parsed[w],
           their_state'[w] = their_state[w]
    PROVE  Kept(w)'
BY DEF Kept, Rest, Taken

LEMMA TakenTyped == ASSUME RequestInv, NEW w \in Waiters PROVE Taken(w) \in Nat
BY DEF RequestInv, Taken

\* The head is taken first (http_protocol.py:50-69).
LEMMA RequestBytes ==
    ASSUME RequestInv, NEW w \in Waiters, Kept(w), OnRequest(w)
    PROVE  Kept(w)'
<1>1. /\ call[w] \in Calls /\ call[w] # NoCall
      /\ their_state[w] = "IDLE" /\ receive_buffer[w] # <<>>
  BY EventState, CallTyped DEF OnRequest
<1>2. call[w].method # "MALFORMED"
  BY <1>1 DEF OnRequest, On, NextEvent
<1>3. /\ UNCHANGED <<call, outgoing, arriving, parsed>>
      /\ receive_buffer' = [receive_buffer EXCEPT ![w] = Tail(@)]
      /\ their_state' = [their_state EXCEPT ![w] = "SEND_BODY"]
  BY DEF OnRequest, clientVars
<1>4. receive_buffer[w] \in Seq(Item) /\ Len(receive_buffer[w]) \in Nat \ {0}
  BY <1>1 DEF RequestInv
<1>5. Tail(receive_buffer[w]) = From(receive_buffer[w], 1 + 1)
  BY <1>1, <1>4, TailIsSubSeq DEF From
<1>6. /\ receive_buffer'[w] = From(receive_buffer[w], 1 + 1)
      /\ their_state'[w] = "SEND_BODY"
  BY <1>3, <1>5 DEF RequestInv
<1>7. Taken(w) = 0 /\ Taken(w)' = 1 /\ parsed[w] = 0
  BY <1>1, <1>2, <1>3, <1>6 DEF Taken, Kept
<1>8. From(receive_buffer[w], 1 + 1) \o arriving[w] \o outgoing[w]
          = From(Whole(call[w]), Taken(w) + 1 + 1)
  <2>1. 1 \in 0 .. Len(receive_buffer[w])
    BY <1>4
  <2> QED BY <1>1, <2>1, TakingKeeps, TakenTyped
<1>9. Taken(w) + 1 + 1 = Taken(w)' + 1
  BY <1>7
<1>10. Rest(w)' = From(Whole(call[w]), Taken(w)' + 1)
  BY <1>3, <1>6, <1>8, <1>9 DEF Rest
<1> QED BY <1>1, <1>2, <1>3, <1>6, <1>10 DEF Kept, Whole

\* A Data event takes pieces of the body, and nothing of what follows them
\* (http_protocol.py:71-80).
LEMMA DataBytes ==
    ASSUME RequestInv, NEW w \in Waiters, Kept(w), OnData(w)
    PROVE  Kept(w)'
<1> DEFINE k == Pieces(w)
<1>1. /\ call[w] \in Calls /\ call[w] # NoCall
      /\ their_state[w] = "SEND_BODY" /\ parsed[w] # call[w].pieces
  BY EventState, CallTyped DEF OnData
<1>2. /\ parsed[w] \in Nat /\ call[w].pieces \in Nat /\ parsed[w] < call[w].pieces
      /\ receive_buffer[w] \in Seq(Item) /\ Len(receive_buffer[w]) \in Nat
  <2>1. receive_buffer[w] \in Seq(Item) /\ parsed[w] \in Nat /\ parsed[w] <= call[w].pieces
    BY <1>1 DEF RequestInv, Received
  <2>2. call[w].pieces \in Nat
    BY <1>1, CallTyped
  <2> QED BY <1>1, <2>1, <2>2
<1>3. k \in 0 .. Len(receive_buffer[w])
  BY <1>2 DEF Pieces
<1>4. /\ UNCHANGED <<call, outgoing, arriving, their_state>>
      /\ receive_buffer' = [receive_buffer EXCEPT ![w] = From(@, k + 1)]
      /\ parsed' = [parsed EXCEPT ![w] = parsed[w] + k]
  BY DEF OnData, clientVars, From
<1> HIDE DEF k
<1>5. receive_buffer'[w] = From(receive_buffer[w], k + 1) /\ parsed'[w] = parsed[w] + k
  BY <1>4 DEF RequestInv
<1>6. call[w].method # "MALFORMED"
  BY <1>1 DEF Kept
<1>7. Taken(w) = 1 + parsed[w] /\ Taken(w)' = 1 + parsed[w] + k
  BY <1>1, <1>2, <1>3, <1>4, <1>5, <1>6 DEF Taken
<1>8. From(receive_buffer[w], k + 1) \o arriving[w] \o outgoing[w]
          = From(Whole(call[w]), Taken(w) + k + 1)
  BY <1>1, <1>3, TakingKeeps, TakenTyped
<1>9. Taken(w) + k + 1 = Taken(w)' + 1
  BY <1>2, <1>3, <1>7
<1>10. Rest(w)' = From(Whole(call[w]), Taken(w)' + 1)
  BY <1>4, <1>5, <1>8, <1>9 DEF Rest
<1> QED BY <1>1, <1>4, <1>6, <1>10 DEF Kept, Whole

\* A turn without a handler takes nothing, whatever becomes of the parser
\* (http_protocol.py:48, 82-87).
LEMMA OtherTurnBytes ==
    ASSUME RequestInv, NEW w \in Waiters, Kept(w),
           OnEndOfMessage(w) \/ OnNeedData(w) \/ OnRemoteProtocolError(w)
    PROVE  Kept(w)'
<1>1. call[w] # NoCall
  BY EventState, CallTyped DEF OnEndOfMessage, OnNeedData, OnRemoteProtocolError
<1>2. UNCHANGED <<call, outgoing, arriving, receive_buffer, parsed>>
  BY DEF OnEndOfMessage, OnNeedData, OnRemoteProtocolError, clientVars, parserVars
<1>3. CASE OnEndOfMessage(w)
  <2>1. their_state[w] = "SEND_BODY"
    BY <1>3, EventState DEF OnEndOfMessage
  <2>2. their_state'[w] \in {"DONE", "MIGHT_SWITCH_PROTOCOL", "MUST_CLOSE"}
    BY <1>3 DEF OnEndOfMessage, EndState, RequestInv
  <2> QED BY <1>1, <1>2, <2>1, <2>2 DEF Kept, Rest, Taken
<1>4. CASE OnNeedData(w)
  BY <1>4, Untouched DEF OnNeedData, clientVars, parserVars
<1>5. CASE OnRemoteProtocolError(w)
  <2>1. their_state'[w] = "ERROR"
    BY <1>5 DEF OnRemoteProtocolError, RequestInv
  <2>2. their_state[w] = "IDLE" => call[w].method = "MALFORMED"
    BY <1>5 DEF OnRemoteProtocolError, On, NextEvent
  <2>3. Taken(w)' = Taken(w)
    BY <1>2, <2>1, <2>2 DEF Taken, Kept
  <2>4. Rest(w)' = Rest(w)
    BY <1>2 DEF Rest
  <2> QED BY <1>1, <1>2, <2>1, <2>3, <2>4 DEF Kept
<1> QED BY <1>3, <1>4, <1>5

\* data_received moves what arrived behind what is buffered (http_protocol.py:36-40).
LEMMA ReceiveBytes ==
    ASSUME RequestInv, NEW w \in Waiters, Kept(w), data_received(w)
    PROVE  Kept(w)'
<1>1. /\ UNCHANGED <<call, outgoing, parsed, their_state>>
      /\ receive_buffer'[w] = receive_buffer[w] \o arriving[w]
      /\ arriving'[w] = <<>>
  BY DEF data_received, clientVars, RequestInv
<1>2. call[w] # NoCall
  BY DEF data_received, RequestInv, Received
<1>3. receive_buffer[w] \o arriving[w] \o <<>> = receive_buffer[w] \o arriving[w]
  <2>1. receive_buffer[w] \in Seq(Item) /\ arriving[w] \in Seq(Item)
    BY DEF RequestInv
  <2> QED BY <2>1, ConcatProperties, ConcatEmptySeq
<1>4. Rest(w)' = Rest(w)
  BY <1>1, <1>3 DEF Rest
<1> QED BY <1>1, <1>2, <1>4 DEF Kept, Taken

\* What the client sends of a request comes in its order.
LEMMA ClientBytes ==
    ASSUME RequestInv, NEW w \in Waiters, Kept(w),
           MakeRequest(w) \/ Transmit(w) \/ Leave(w)
    PROVE  Kept(w)'
<1>1. CASE MakeRequest(w)
  <2>1. PICK c \in Calls : /\ call' = [call EXCEPT ![w] = c]
                          /\ outgoing' = [outgoing EXCEPT ![w] = Wire(c)]
    BY <1>1 DEF MakeRequest
  <2>2. /\ UNCHANGED <<receive_buffer, parsed, their_state>>
        /\ call'[w] = c /\ outgoing'[w] = Wire(c) /\ arriving'[w] = <<"HEAD">>
        /\ call[w] = NoCall
    BY <1>1, <2>1 DEF MakeRequest, parserVars, RequestInv
  <2>3. receive_buffer'[w] = <<>> /\ their_state'[w] = "IDLE" /\ parsed'[w] = 0
    BY <2>2 DEF Kept
  <2>4. c # NoCall /\ Taken(w)' = 0
    BY <2>3, CallTyped DEF Taken
  <2>5. Rest(w)' = Whole(c)
    <3>1. <<"HEAD">> \in Seq(Item)
      BY DEF Item
    <3>2. <<>> \o <<"HEAD">> = <<"HEAD">>
      BY <3>1, ConcatEmptySeq
    <3> QED BY <2>2, <2>3, <3>2 DEF Rest, Whole
  <2>6. Whole(c) = From(Whole(c), 0 + 1)
    BY WholeTyped, SubSeqFull DEF From
  <2> QED BY <2>2, <2>3, <2>4, <2>5, <2>6 DEF Kept
<1>2. CASE Transmit(w)
  <2>1. /\ UNCHANGED <<call, receive_buffer, parsed, their_state>>
        /\ arriving'[w] = Append(arriving[w], Head(outgoing[w]))
        /\ outgoing'[w] = Tail(outgoing[w])
        /\ outgoing[w] # <<>>
    BY <1>2 DEF Transmit, parserVars, RequestInv
  <2>2. call[w] # NoCall
    BY <2>1 DEF RequestInv, Received
  <2>3. Rest(w)' = Rest(w)
    <3>1. /\ receive_buffer[w] \in Seq(Item) /\ arriving[w] \in Seq(Item)
          /\ outgoing[w] \in Seq(Item)
      BY DEF RequestInv
    <3> DEFINE h == Head(outgoing[w])
               t == Tail(outgoing[w])
    <3>2. h \in Item /\ t \in Seq(Item) /\ <<h>> \in Seq(Item)
      BY <2>1, <3>1
    <3>3. Append(arriving[w], h) = arriving[w] \o <<h>>
      BY <3>1, <3>2, AppendIsConcat
    <3>4. outgoing[w] = <<h>> \o t
      <4>1. Len(outgoing[w]) \in Nat \ {0} /\ h = outgoing[w][1]
        BY <2>1, <3>1
      <4>2. outgoing[w] = SubSeq(outgoing[w], 1, Len(outgoing[w]))
        BY <3>1, SubSeqFull
      <4>3. t = SubSeq(outgoing[w], 1 + 1, Len(outgoing[w]))
        BY <2>1, <3>1, TailIsSubSeq
      <4>4. 1 \in 1 .. Len(outgoing[w]) /\ Len(outgoing[w]) \in 1 .. Len(outgoing[w])
        BY <4>1
      <4> HIDE DEF h, t
      <4> QED BY <3>1, <4>1, <4>2, <4>3, <4>4, SubSeqRecursiveFirst
    <3> HIDE DEF h, t
    <3>5. receive_buffer[w] \o (arriving[w] \o <<h>>) \o t
              = (receive_buffer[w] \o arriving[w]) \o (<<h>> \o t)
      <4> DEFINE x == <<h>>
                 r == receive_buffer[w]
                 a == arriving[w]
      <4>1. r \in Seq(Item) /\ a \in Seq(Item) /\ x \in Seq(Item) /\ t \in Seq(Item)
        BY <3>1, <3>2
      <4> HIDE DEF x, r, a
      <4>2. r \o (a \o x) = (r \o a) \o x
        BY <4>1, ConcatAssociative, SMTT(60)
      <4>3. r \o a \in Seq(Item)
        BY <4>1, ConcatProperties
      <4>4. ((r \o a) \o x) \o t = (r \o a) \o (x \o t)
        BY <4>1, <4>3, ConcatAssociative, SMTT(60)
      <4>5. r \o (a \o x) \o t = (r \o a) \o (x \o t)
        BY <4>2, <4>4
      <4> QED BY <4>5 DEF x, r, a
    <3>6. receive_buffer'[w] \o arriving'[w] \o outgoing'[w]
              = receive_buffer[w] \o (arriving[w] \o <<h>>) \o t
      BY <2>1, <3>3 DEF h, t
    <3> QED BY <3>4, <3>5, <3>6, Zenon DEF Rest
  <2> QED BY <2>1, <2>2, <2>3 DEF Kept, Taken
<1>3. CASE Leave(w)
  BY <1>3, Untouched DEF Leave, clientVars, parserVars
<1> QED BY <1>1, <1>2, <1>3

\* An answer to a wait ends the cycle of the parser, and takes nothing.
LEMMA AnswerBytes ==
    ASSUME RequestInv, NEW w \in Waiters, Kept(w), PollAndAnswer(w)
    PROVE  Kept(w)'
<1>1. UNCHANGED <<call, outgoing, arriving, receive_buffer, parsed>>
  BY DEF PollAndAnswer, clientVars, parserVars
<1>2. \/ their_state'[w] = their_state[w]
      \/ /\ their_state[w] \in {"DONE", "MIGHT_SWITCH_PROTOCOL"}
         /\ their_state'[w] = "MUST_CLOSE"
  BY DEF PollAndAnswer, RequestInv
<1> QED BY <1>1, <1>2 DEF Kept, Rest, Taken

\* A step of a connection leaves the bytes of the others alone.
LEMMA OthersKept ==
    ASSUME RequestInv, NEW w \in Waiters, NEW v \in Waiters, v # w, Kept(v),
           \/ MakeRequest(w) \/ Transmit(w) \/ Leave(w)
           \/ data_received(w) \/ Turn(w) \/ PollAndAnswer(w)
    PROVE  Kept(v)'
<1> DEFINE Same == /\ call'[v] = call[v] /\ outgoing'[v] = outgoing[v]
                   /\ arriving'[v] = arriving[v] /\ receive_buffer'[v] = receive_buffer[v]
                   /\ parsed'[v] = parsed[v] /\ their_state'[v] = their_state[v]
<1>1. CASE MakeRequest(w) \/ Transmit(w) \/ Leave(w)
  <2>1. Same
    BY <1>1 DEF MakeRequest, Transmit, Leave, clientVars, parserVars, RequestInv
  <2> QED BY <2>1, Untouched
<1>2. CASE data_received(w)
  <2>1. Same
    BY <1>2 DEF data_received, clientVars, RequestInv
  <2> QED BY <2>1, Untouched
<1>3. CASE OnRequest(w)
  <2>1. Same
    BY <1>3 DEF OnRequest, clientVars, RequestInv
  <2> QED BY <2>1, Untouched
<1>4. CASE OnData(w)
  <2>1. Same
    BY <1>4 DEF OnData, clientVars, RequestInv
  <2> QED BY <2>1, Untouched
<1>5. CASE OnEndOfMessage(w) \/ OnNeedData(w) \/ OnRemoteProtocolError(w)
  <2>1. Same
    BY <1>5 DEF OnEndOfMessage, OnNeedData, OnRemoteProtocolError, clientVars, parserVars,
                RequestInv
  <2> QED BY <2>1, Untouched
<1>6. CASE PollAndAnswer(w)
  <2>1. Same
    BY <1>6 DEF PollAndAnswer, clientVars, parserVars, RequestInv
  <2> QED BY <2>1, Untouched
<1> QED BY <1>1, <1>2, <1>3, <1>4, <1>5, <1>6 DEF Turn

LEMMA BytesStep ==
    ASSUME RequestInv, \A v \in Waiters : Kept(v), [HttpNext]_httpAll
    PROVE  \A v \in Waiters : Kept(v)'
<1>1. CASE UNCHANGED httpVars
  BY <1>1, Untouched DEF httpVars, clientVars, parserVars
<1>2. CASE \E w \in Waiters : \/ MakeRequest(w) \/ Transmit(w) \/ Leave(w)
                              \/ data_received(w) \/ Turn(w) \/ PollAndAnswer(w)
  <2>1. PICK w \in Waiters : \/ MakeRequest(w) \/ Transmit(w) \/ Leave(w)
                             \/ data_received(w) \/ Turn(w) \/ PollAndAnswer(w)
    BY <1>2
  <2>2. Kept(w)'
    <3>1. CASE MakeRequest(w) \/ Transmit(w) \/ Leave(w)
      BY <3>1, ClientBytes
    <3>2. CASE data_received(w)
      BY <3>2, ReceiveBytes
    <3>3. CASE Turn(w)
      BY <3>3, RequestBytes, DataBytes, OtherTurnBytes DEF Turn
    <3>4. CASE PollAndAnswer(w)
      BY <3>4, AnswerBytes
    <3> QED BY <2>1, <3>1, <3>2, <3>3, <3>4
  <2>3. ASSUME NEW v \in Waiters, v # w PROVE Kept(v)'
    BY <2>1, <2>3, OthersKept
  <2> QED BY <2>2, <2>3
<1> QED BY <1>1, <1>2 DEF HttpNext, Worker, httpAll

\* However a request is cut into segments (http_protocol.py:36-40), no byte of it is
\* lost, repeated or moved between the client and the handlers.
THEOREM HttpTypeCorrect == HttpSpec => []HttpTypeOK
<1>1. HttpInit => \A v \in Waiters : Kept(v)
  BY DEF HttpInit, Kept
<1>2. RequestInv /\ (\A v \in Waiters : Kept(v)) /\ [HttpNext]_httpAll
          => (\A v \in Waiters : Kept(v))'
  BY BytesStep
<1>3. RequestInv /\ (\A v \in Waiters : Kept(v)) => HttpTypeOK
  <2> SUFFICES ASSUME RequestInv, \A v \in Waiters : Kept(v) PROVE HttpTypeOK
    OBVIOUS
  <2>1. ASSUME NEW w \in Waiters
        PROVE  /\ call[w] \in Calls \cup {NoCall}
               /\ CanRespond(w) <=> written[w] = <<>>
               /\ call[w] # NoCall =>
                     LET whole == <<"HEAD">> \o Wire(call[w]) IN
                     receive_buffer[w] \o arriving[w] \o outgoing[w]
                         = SubSeq(whole, Taken(w) + 1, Len(whole))
    BY <2>1 DEF RequestInv, Written, Kept, Rest, Whole, From
  <2> QED BY <2>1 DEF RequestInv, HttpTypeOK, Code, Serving, ClientStates
<1>4. HttpInv => RequestInv
  BY DEF HttpInv
<1> QED BY <1>1, <1>2, <1>3, <1>4, HttpInvariant, PTL DEF HttpSpec

-----------------------------------------------------------------------------
(* What an answer tells of a publication *)

\* A connection is written nothing in this step, or one answer.
Written1(w, status) == written'[w] = written[w] \/ Elements(written'[w]) = {status}

\* What may be told of the publication of m.
Told(w, m) ==
    written'[w] # written[w] =>
        IF 200 \in Elements(written'[w]) THEN \E r \in issued' : r.msg = m
        ELSE UNCHANGED pushed

\* The parser writes a response first, or not at all (http_protocol.py:326-415).
LEMMA SendTells ==
    ASSUME RequestInv, NEW w \in Waiters, NEW status \in Code, Send(w, status)
    PROVE  /\ Written1(w, status)
           /\ \A v \in Waiters : v # w => written'[v] = written[v]
<1>1. written \in [Waiters -> Seq(Code)] /\ Written(w)
  BY DEF RequestInv
<1>2. CASE CanRespond(w)
  <2>1. written' = [written EXCEPT ![w] = Append(@, status)] /\ written[w] = <<>>
    BY <1>1, <1>2 DEF Send, Written
  <2>2. written'[w] = <<status>>
    BY <1>1, <2>1
  <2>3. Elements(<<status>>) = {status}
    BY DEF Elements
  <2> QED BY <1>1, <2>1, <2>2, <2>3 DEF Written1
<1>3. CASE ~CanRespond(w)
  BY <1>3 DEF Send, Written1
<1> QED BY <1>2, <1>3

LEMMA FailTells ==
    ASSUME RequestInv, NEW w \in Waiters, Fail(w)
    PROVE  /\ Written1(w, 500)
           /\ \A v \in Waiters : v # w => written'[v] = written[v]
BY SendTells DEF Fail, Code

LEMMA AnswerTells ==
    ASSUME RequestInv, NEW w \in Waiters, NEW status \in Code, Answer(w, status)
    PROVE  /\ Written1(w, status)
           /\ \A v \in Waiters : v # w => written'[v] = written[v]
<1>1. CASE CanRespond(w)
  BY <1>1, SendTells DEF Answer
<1>2. CASE ~CanRespond(w)
  <2>1. written' = written
    BY <1>2 DEF Answer, Fail, Send
  <2> QED BY <2>1 DEF Written1
<1> QED BY <1>1, <1>2

\* The tag answered (http_protocol.py:240-247) was drawn in this turn, and `not found'
\* is answered where the loop over the consumers pushed nothing (state.py:252-285).
LEMMA OfferTells ==
    ASSUME BrokerInv, RequestInv, NEW w \in Waiters, NEW q \in DOMAIN queues,
           NEW kept, NEW m, NEW t, Offer(q, kept, m, t), Offered(w, q, m)
    PROVE  Told(w, m)
<1> DEFINE s == queues[q].consumers
           Live == \E k \in Elements(s) : k.conn \notin closing
           Pushes(dead) == {[conn |-> s[i].conn, chan |-> s[i].chan, ctag |-> s[i].tag,
                             dtag |-> t, msg |-> m] : i \in Receivers(s, dead)}
           Issues(dead) == {[dtag |-> t, msg |-> m] : i \in Visited(s, dead)}
<1>1. PICK dead \in 0 .. Len(s) :
          /\ Met(s, dead)
          /\ IF m \in Unsendable /\ dead < Len(s) THEN UNCHANGED outputs
             ELSE pushed' = pushed \cup Pushes(dead) /\ issued' = issued \cup Issues(dead)
  BY DEF Offer
<1>2. s \in Seq(Consumer)
  BY DEF BrokerInv, BrokerTypeOK, IsDict, Queue
<1>3. Len(s) \in Nat /\ DOMAIN s = 1 .. Len(s) /\ dead \in 0 .. Len(s)
  BY <1>2
<1>4. Live <=> dead < Len(s)
  <2>1. ASSUME Live PROVE dead < Len(s)
    <3>1. PICK i \in DOMAIN s : s[i].conn \notin closing
      BY <2>1 DEF Elements
    <3>2. i \notin 1 .. dead
      BY <1>1, <3>1 DEF Met
    <3> QED BY <1>3, <3>1, <3>2
  <2>2. ASSUME dead < Len(s) PROVE Live
    <3>1. s[dead + 1].conn \notin closing /\ dead + 1 \in DOMAIN s
      BY <1>1, <1>3, <2>2 DEF Met
    <3> QED BY <3>1 DEF Elements
  <2> QED BY <2>1, <2>2
<1>5. CASE m \in Unsendable /\ Live
  <2>1. Written1(w, 500)
    BY <1>5, FailTells DEF Offered
  <2>2. UNCHANGED pushed
    BY <1>1, <1>4, <1>5 DEF outputs
  <2> QED BY <2>1, <2>2 DEF Written1, Told
<1>6. CASE ~(m \in Unsendable /\ Live) /\ s = <<>>
  <2>1. Written1(w, 404)
    <3>1. Answer(w, 404) /\ 404 \in Code
      BY <1>6 DEF Offered, Code
    <3> QED BY <3>1, AnswerTells
  <2>2. Receivers(s, dead) = {}
    BY <1>6 DEF Receivers
  <2>3. pushed' = pushed
    <3>1. pushed' = pushed \cup Pushes(dead)
      BY <1>1, <1>4, <1>6
    <3>2. Pushes(dead) = {}
      BY <2>2
    <3> QED BY <3>1, <3>2
  <2> QED BY <2>1, <2>3 DEF Written1, Told
<1>7. CASE ~(m \in Unsendable /\ Live) /\ s # <<>>
  <2>1. Written1(w, 200)
    <3>1. Answer(w, 200) /\ 200 \in Code
      BY <1>7 DEF Offered, Code
    <3> QED BY <3>1, AnswerTells
  <2>2. [dtag |-> t, msg |-> m] \in issued'
    <3>1. issued' = issued \cup Issues(dead)
      BY <1>1, <1>4, <1>7
    <3>2. 1 \in Visited(s, dead)
      BY <1>2, <1>3, <1>7 DEF Visited
    <3> QED BY <3>1, <3>2
  <2>3. \E r \in issued' : r.msg = m
    BY <2>2
  <2> QED BY <2>1, <2>3 DEF Written1, Told
<1> QED BY <1>5, <1>6, <1>7

\* An answer other than 200 where nothing is pushed tells the truth.
LEMMA NothingPushedTells ==
    ASSUME NEW w, NEW m, NEW status, status # 200, Written1(w, status), UNCHANGED pushed
    PROVE  Told(w, m)
BY DEF Written1, Told

LEMMA AddMessageTells ==
    ASSUME BrokerInv, RequestInv, NEW w \in Waiters, NEW x, NEW m, NEW t,
           add_message_on(w, x, m, t) \/ add_message_in_queue(w, x, m, t)
    PROVE  Told(w, m)
<1>1. 404 \in Code /\ 404 # 200
  BY DEF Code
<1>2. CASE add_message_on(w, x, m, t)
  <2>1. CASE x \in DOMAIN exchanges /\ BoundTo(x) # {}
    <3>1. PICK q \in BoundTo(x) : Offer(q, queues[q].messages, m, t) /\ Offered(w, q, m)
      BY <1>2, <2>1 DEF add_message_on
    <3>2. q \in DOMAIN queues
      BY DEF BrokerInv, BindingsResolve, BoundTo
    <3> QED BY <3>1, <3>2, OfferTells
  <2>2. CASE ~(x \in DOMAIN exchanges /\ BoundTo(x) # {})
    <3>1. publish_message(x, m, t) /\ Answer(w, 404)
      BY <1>2, <2>2 DEF add_message_on
    <3>2. UNCHANGED pushed
      BY <2>2, <3>1 DEF publish_message, outputs
    <3> QED BY <1>1, <3>1, <3>2, AnswerTells, NothingPushedTells
  <2> QED BY <2>1, <2>2
<1>3. CASE add_message_in_queue(w, x, m, t)
  <2>1. CASE x \in DOMAIN queues
    <3>1. Offer(x, Append(queues[x].messages, m), m, t) /\ Offered(w, x, m)
      BY <1>3, <2>1 DEF add_message_in_queue, publish_message_in_queue
    <3> QED BY <2>1, <3>1, OfferTells
  <2>2. CASE x \notin DOMAIN queues
    <3>1. UNCHANGED pushed /\ Answer(w, 404)
      BY <1>3, <2>2 DEF add_message_in_queue, publish_message_in_queue, outputs
    <3> QED BY <1>1, <3>1, AnswerTells, NothingPushedTells
  <2> QED BY <2>1, <2>2
<1> QED BY <1>2, <1>3

\* The message of the pieces i .. j of a request's body.
Published(c, i, j) == IF IsBinary(c.action) THEN Slice(i, j) ELSE c.action.json

Adds(c) == c.method = "POST" /\ c.action.on \in {"add-message-on", "add-message-in-queue"}

TellsTruth(w) ==
    written'[w] # written[w] /\ Adds(call[w]) =>
        IF 200 \in Elements(written'[w])
        THEN \E r \in issued', i, j \in 1 .. call[w].pieces : r.msg = Published(call[w], i, j)
        ELSE UNCHANGED pushed

\* Only the turn for a part of the body publishes (http_protocol.py:71-80).
LEMMA DataTells ==
    ASSUME BrokerInv, RequestInv, NEW w \in Waiters, OnData(w)
    PROVE  TellsTruth(w)
<1> DEFINE c == call[w]
           from == parsed[w] + 1
           to == parsed[w] + Pieces(w)
           cut == ~IsBinary(c.action) /\ Slice(from, to) # Slice(1, c.pieces)
<1>1. /\ c \in Calls /\ c # NoCall
      /\ parsed[w] # c.pieces /\ receive_buffer[w] # <<>>
  BY EventState, CallTyped DEF OnData
<1>2. from \in 1 .. c.pieces /\ to \in 1 .. c.pieces
  <2>1. /\ receive_buffer[w] \in Seq(Item) /\ parsed[w] \in Nat /\ parsed[w] <= c.pieces
        /\ c.pieces \in Nat
    BY <1>1, CallTyped DEF RequestInv, Received
  <2>2. Len(receive_buffer[w]) \in Nat \ {0}
    BY <1>1, <2>1
  <2>3. Pieces(w) \in 1 .. c.pieces - parsed[w]
    BY <1>1, <2>1, <2>2 DEF Pieces
  <2> QED BY <1>1, <2>1, <2>3
<1> SUFFICES ASSUME Adds(c), written'[w] # written[w] PROVE TellsTruth(w)
  BY DEF TellsTruth
<1>3. _on_post(w, c.action, from, to)
  <2>1. CASE request_state[w] = "WAITING_BODY"
    BY <2>1 DEF OnData, Adds
  <2>2. CASE request_state[w] # "WAITING_BODY"
    BY <2>2 DEF OnData, NoAnswer
  <2> QED BY <2>1, <2>2
<1>4. CASE cut
  <2>1. UNCHANGED tables /\ Fail(w)
    BY <1>3, <1>4 DEF _on_post, Adds
  <2>2. Written1(w, 500) /\ UNCHANGED pushed
    BY <2>1, FailTells DEF tables, outputs
  <2> QED BY <2>2 DEF Written1, TellsTruth
<1>5. CASE ~cut
  <2> DEFINE m == Published(c, from, to)
  <2>1. \E t \in DeliveryTags : \/ add_message_on(w, c.action.name, m, t)
                                \/ add_message_in_queue(w, c.action.name, m, t)
    BY <1>3, <1>5 DEF _on_post, Adds, Published
  <2>2. Told(w, m)
    <3> HIDE DEF m
    <3> QED BY <2>1, AddMessageTells
  <2>3. CASE 200 \in Elements(written'[w])
    <3>1. PICK r \in issued' : r.msg = m
      BY <2>2, <2>3 DEF Told
    <3> HIDE DEF from, to
    <3> QED BY <1>2, <2>3, <3>1 DEF TellsTruth
  <2>4. CASE 200 \notin Elements(written'[w])
    BY <2>2, <2>4 DEF Told, TellsTruth
  <2> QED BY <2>3, <2>4
<1> QED BY <1>4, <1>5

\* The other turns of a request that publishes answer only the parser's own error.
LEMMA TurnTells ==
    ASSUME BrokerInv, RequestInv, NEW w \in Waiters, Turn(w)
    PROVE  TellsTruth(w)
<1>1. CASE OnRequest(w)
  <2>1. Adds(call[w]) => NoAnswer
    BY <1>1 DEF OnRequest, Adds
  <2> QED BY <2>1 DEF NoAnswer, TellsTruth
<1>2. CASE OnData(w)
  BY <1>2, DataTells
<1>3. CASE OnEndOfMessage(w) \/ OnNeedData(w)
  BY <1>3 DEF OnEndOfMessage, OnNeedData, NoAnswer, TellsTruth
<1>4. CASE OnRemoteProtocolError(w)
  <2>1. Written1(w, 500) /\ UNCHANGED pushed
    BY <1>4, FailTells DEF OnRemoteProtocolError, waitVars, brokerVars, tables, outputs
  <2> QED BY <2>1 DEF Written1, TellsTruth
<1> QED BY <1>1, <1>2, <1>3, <1>4 DEF Turn

\* A wait that ends late pushes nothing (http_protocol.py:314-324).
LEMMA PollTells ==
    ASSUME WaitTypeOK, RequestInv, NEW w \in Waiters, PollAndAnswer(w)
    PROVE  TellsTruth(w)
<1>1. UNCHANGED pushed
  BY DEF PollAndAnswer, Poll, brokerVars, tables, outputs
<1>2. CASE answer'[w] = answer[w]
  BY <1>2 DEF PollAndAnswer, TellsTruth
<1>3. CASE answer'[w] # answer[w]
  <2>1. answer'[w] \in {204, 403, 504}
    BY <1>3, PollTyped DEF WaitTypeOK, PollAndAnswer, Poll, Waiting, Answered
  <2>2. Written1(w, answer'[w])
    BY <1>3, <2>1, SendTells DEF PollAndAnswer, Code
  <2> QED BY <1>1, <2>1, <2>2 DEF Written1, TellsTruth
<1> QED BY <1>2, <1>3

\* A turn writes to its own connection only.
LEMMA TurnWrites ==
    ASSUME RequestInv, WaitTypeOK, NEW w \in Waiters, Turn(w) \/ PollAndAnswer(w),
           NEW v \in Waiters, v # w
    PROVE  written'[v] = written[v]
<1>1. 200 \in Code /\ 204 \in Code /\ 404 \in Code
  BY DEF Code
<1> DEFINE Answering == \/ Answer(w, 200) \/ Answer(w, 204) \/ Answer(w, 404)
                        \/ Fail(w) \/ NoAnswer
<1>2. ASSUME Answering PROVE written'[v] = written[v]
  BY <1>1, <1>2, AnswerTells, FailTells DEF NoAnswer
<1>3. CASE OnRequest(w)
  <2>1. ASSUME NEW a, _on_get(w, a) PROVE Answering
    <3>1. CASE a.on = "wait"
      BY <2>1, <3>1 DEF _on_get
    <3>2. CASE a.on # "wait"
      BY <2>1, <3>2 DEF _on_get, Inspect
    <3> QED BY <3>1, <3>2
  <2>2. ASSUME NEW a, _on_delete(w, a) PROVE Answering
    BY <2>2 DEF _on_delete
  <2>3. Answering
    BY <1>3, <2>1, <2>2 DEF OnRequest
  <2> QED BY <1>2, <2>3
<1>4. CASE OnData(w)
  <2>1. ASSUME NEW q, NEW m, Offered(w, q, m) PROVE Answering
    BY <2>1 DEF Offered
  <2>2. ASSUME NEW x, NEW m, NEW t, add_message_on(w, x, m, t) PROVE Answering
    <3>1. CASE x \in DOMAIN exchanges /\ BoundTo(x) # {}
      <4>1. \E q \in BoundTo(x) : Offered(w, q, m)
        BY <2>2, <3>1 DEF add_message_on
      <4> QED BY <2>1, <4>1
    <3>2. CASE ~(x \in DOMAIN exchanges /\ BoundTo(x) # {})
      BY <2>2, <3>2 DEF add_message_on
    <3> QED BY <3>1, <3>2
  <2>3. ASSUME NEW x, NEW m, NEW t, add_message_in_queue(w, x, m, t) PROVE Answering
    <3>1. Offered(w, x, m) \/ Answer(w, 404)
      BY <2>3 DEF add_message_in_queue
    <3> QED BY <2>1, <3>1
  <2>4. ASSUME NEW i, NEW j, _on_post(w, call[w].action, i, j) PROVE Answering
    <3> DEFINE a == call[w].action
               m == IF IsBinary(a) THEN Slice(i, j) ELSE a.json
    <3>1. CASE \E t \in DeliveryTags : \/ add_message_on(w, a.name, m, t)
                                       \/ add_message_in_queue(w, a.name, m, t)
      BY <2>2, <2>3, <3>1
    <3>2. CASE ~\E t \in DeliveryTags : \/ add_message_on(w, a.name, m, t)
                                        \/ add_message_in_queue(w, a.name, m, t)
      <4>1. Fail(w) \/ Answer(w, 200) \/ Answer(w, 404)
        BY <2>4, <3>2 DEF _on_post
      <4> QED BY <4>1
    <3> QED BY <3>1, <3>2
  <2>5. Answering
    BY <1>4, <2>4 DEF OnData, _on_put
  <2> QED BY <1>2, <2>5
<1>5. CASE OnEndOfMessage(w)
  BY <1>5 DEF OnEndOfMessage, NoAnswer
<1>6. CASE OnNeedData(w)
  BY <1>6 DEF OnNeedData
<1>7. CASE OnRemoteProtocolError(w)
  BY <1>7, FailTells DEF OnRemoteProtocolError
<1>8. CASE PollAndAnswer(w)
  <2>1. CASE answer'[w] = answer[w]
    BY <1>8, <2>1 DEF PollAndAnswer
  <2>2. CASE answer'[w] # answer[w]
    <3>1. answer'[w] \in Code
      BY <1>8, <2>2, PollTyped DEF WaitTypeOK, PollAndAnswer, Poll, Waiting, Answered, Code
    <3> QED BY <1>8, <2>2, <3>1, SendTells DEF PollAndAnswer
  <2> QED BY <2>1, <2>2
<1> QED BY <1>3, <1>4, <1>5, <1>6, <1>7, <1>8 DEF Turn

LEMMA StepTells ==
    ASSUME HttpInv, [HttpNext]_httpAll, NEW v \in Waiters
    PROVE  TellsTruth(v)
<1>0. BrokerInv /\ WaitTypeOK /\ RequestInv
  BY DEF HttpInv, WaitInv
<1>1. CASE UNCHANGED written
  BY <1>1 DEF TellsTruth
<1>2. CASE \E w \in Waiters : Turn(w) \/ PollAndAnswer(w)
  <2>1. PICK w \in Waiters : Turn(w) \/ PollAndAnswer(w)
    BY <1>2
  <2>2. CASE v = w
    BY <1>0, <2>1, <2>2, TurnTells, PollTells
  <2>3. CASE v # w
    <3>1. written'[v] = written[v]
      BY <1>0, <2>1, <2>3, TurnWrites
    <3> QED BY <3>1 DEF TellsTruth
  <2> QED BY <2>2, <2>3
<1>3. HttpNext => \/ UNCHANGED written
                  \/ \E w \in Waiters : Turn(w) \/ PollAndAnswer(w)
  BY DEF HttpNext, Worker, MakeRequest, Transmit, Leave, data_received, httpVars
<1> QED BY <1>1, <1>2, <1>3 DEF httpAll, httpVars

\* POST /add-message-* (http_protocol.py:231-267) never answers a tag that was not
\* issued for a body of this request, nor anything else in a turn that pushed it.
THEOREM AnswerAlwaysTellsTruth == HttpSpec => AnswerTellsTruth
<1>1. HttpInv /\ [HttpNext]_httpAll =>
        [\A w \in Waiters :
          (/\ written'[w] # written[w]
           /\ call[w].method = "POST"
           /\ call[w].action.on \in {"add-message-on", "add-message-in-queue"}) =>
              IF 200 \in Elements(written'[w])
              THEN \E r \in issued', i, j \in 1 .. call[w].pieces :
                      r.msg = IF IsBinary(call[w].action) THEN Slice(i, j)
                              ELSE call[w].action.json
              ELSE UNCHANGED pushed]_httpAll
  BY StepTells DEF TellsTruth, Adds, Published
<1> QED BY <1>1, HttpInvariant, PTL DEF HttpSpec, AnswerTellsTruth
=============================================================================
