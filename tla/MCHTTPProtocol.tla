--------------------------- MODULE MCHTTPProtocol ---------------------------
(* HTTP connections over the broker tables and the waits, on small instances. *)
EXTENDS HTTPProtocol, FiniteSetsExt, TLC

CONSTANTS
    MaxEntries,     \* messages kept, tags settled and users seen
    MaxConsumers,   \* consumers registered
    JsonBody, WorkerBody, RefusedBody,  \* messages that are not slices
    AllSlices,      \* slices of a body: those of two pieces
    AnyCall,        \* connections that make any of the Calls
    FewCalls        \* what the other connections make

Total(f) == MapThenSumSet(LAMBDA x : Len(f[x]), DOMAIN f)

Other ==
    Total([e \in DOMAIN exchanges |-> SelectSeq(exchanges[e].messages, LAMBDA m : m = WorkerBody)])
    + Cardinality(message_not_acknowledged) + Cardinality(message_requeued)
    + Cardinality(DOMAIN authentication_tried_on)

WithinBounds ==
    /\ Total([e \in DOMAIN exchanges |-> exchanges[e].messages])
       + Total([q \in DOMAIN queues |-> queues[q].messages])
       + Cardinality(message_acknowledged) + Cardinality(message_not_acknowledged)
       + Cardinality(message_requeued) + Cardinality(DOMAIN authentication_tried_on)
       <= MaxEntries
    /\ Total([q \in DOMAIN queues |-> queues[q].consumers]) <= MaxConsumers

\* The bounds hold back the workers, who act between two callbacks and publish
\* one message only.  When the other connections take part workers do no more
\* than declare, consume, acknowledge and go away.
MCNext ==
    /\ HttpNext
    /\ (serving = Free /\ brokerVars' # brokerVars) =>
          /\ WithinBounds'
          /\ \A e \in DOMAIN exchanges :
                exchanges'[e] # exchanges[e] => WorkerBody \in Elements(exchanges'[e].messages)
    /\ \A w \in Waiters \ AnyCall :
          call'[w] = NoCall \/ (call'[w] \in FewCalls /\ Other' = 0)
MCSpec == HttpInit /\ [][MCNext]_httpAll
MCFairSpec == MCSpec /\ HttpFairness

MCSlices == {Slice(1, 1), Slice(2, 2), Slice(1, 2)}
MCMessages == {JsonBody, WorkerBody, RefusedBody} \cup AllSlices
MCTargets == [on : {"acknowledged"}, dtag : DeliveryTags]

Make(method, action, pieces, keep_alive, more) ==
    [method |-> method, action |-> action, pieces |-> pieces,
     keep_alive |-> keep_alive, more |-> more, switch |-> FALSE]

Nothing == [on |-> "unknown"]

\* The same request, with an Upgrade: header or made with CONNECT.
Switching(c) == [c EXCEPT !.switch = TRUE]
Publications ==
    [on : {"add-message-in-queue"}, name : Queues, json : Textual \cup {NoCall}]

\* Every method, each path of the handlers, bodies in none, one or two pieces, and
\* clients that wait for the answer or send more before it, or ask for another protocol.
MCCalls ==
    {Make("POST", a, 2, TRUE, FALSE) : a \in Publications}
    \cup {Make("GET", [on |-> "wait", target |-> g], n, n = 1, n = 1) :
              g \in Targets, n \in {0, 1}}
    \cup {Make("MOCK_FLUSH", Nothing, 0, FALSE, TRUE)}
    \cup {Make("POST", [on |-> "create-queue", name |-> q], n, TRUE, FALSE) :
              q \in Queues, n \in {0, 1}}
    \cup {Make("GET", [on |-> "queue", name |-> q], 0, TRUE, FALSE) : q \in Queues}
    \cup {Switching(Make("GET", [on |-> "wait", target |-> g], 0, FALSE, FALSE)) :
              g \in Targets}
    \cup {Switching(Make("POST", [on |-> "create-queue", name |-> q], n, TRUE, FALSE)) :
              q \in Queues, n \in {0, 1}}
    \cup {Switching(Make("OTHER", Nothing, 0, TRUE, FALSE))}
    \cup {Make("PUT", Nothing, 2, TRUE, TRUE), Make("MALFORMED", Nothing, 0, TRUE, FALSE)}

\* The targets that touch exchanges, and those no handler knows.
MCExchangeCalls ==
    {Make("POST", a, 1, TRUE, FALSE) :
        a \in [on : {"add-message-on"}, name : Exchanges, json : Textual \cup {NoCall}]
              \cup [on : {"create-exchange"}, name : Exchanges, type : Types]
              \cup {[on |-> "bad"], Nothing}}
    \cup {Make(method, [on |-> "exchange", name |-> e], 0, TRUE, FALSE) :
              method \in {"GET", "DELETE"}, e \in Exchanges}
    \cup {Make("DELETE", [on |-> "queue", name |-> q], 0, TRUE, FALSE) : q \in Queues}
    \cup {Make("DELETE", Nothing, 0, TRUE, FALSE), Make("OTHER", Nothing, 1, TRUE, TRUE)}
    \cup {Make("GET", a, 0, TRUE, FALSE) : a \in {[on |-> "state"], [on |-> "bad"], Nothing}}

MCAllCalls == MCCalls \cup MCExchangeCalls

\* A publication of a body in two pieces, and a wait followed by other bytes.
MCFewCalls ==
    {Make("POST", a, 2, TRUE, FALSE) : a \in {p \in Publications : p.json = NoCall}}
    \cup {Make("GET", [on |-> "wait", target |-> g], 0, TRUE, TRUE) : g \in Targets}

\* One binary body in two pieces, and what makes its queue.
MCBinaryCalls ==
    {Make("POST", [on |-> "add-message-in-queue", name |-> q, json |-> NoCall], 2, TRUE, FALSE) :
        q \in Queues}
    \cup {Make("POST", [on |-> "create-queue", name |-> q], 1, TRUE, FALSE) : q \in Queues}
=============================================================================
