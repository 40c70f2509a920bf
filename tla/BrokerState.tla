---------------------------- MODULE BrokerState ----------------------------
(***************************************************************************)
(* The in-memory broker of service/state.py: class State, shared by every  *)
(* AMQP connection (service/protocol.py) and every HTTP connection         *)
(* (service/http_protocol.py) of the one asyncio event loop.  Each method  *)
(* of State runs to completion before another handler runs, so each is one *)
(* action, named as in the source.                                         *)
(*                                                                         *)
(* A Python dict is a function whose DOMAIN is the set of its keys.  The   *)
(* iteration order matters for one dict only, the consumers of a queue,    *)
(* which is a sequence of entries in insertion order.  A deque of messages *)
(* is a sequence.  A Python set is a set: which element a loop over it     *)
(* meets first is a nondeterministic choice.                               *)
(***************************************************************************)
EXTENDS Naturals, Sequences

CONSTANTS
    Exchanges,        \* exchange names
    DefaultExchange,  \* the anonymous exchange ''
    Types,            \* exchange types
    DefaultType,      \* 'direct'
    Queues,           \* queue names
    Conns,            \* AMQP connections: one TrackerProtocol instance each
    Channels,         \* channel numbers
    ConsumerTags,     \* consumer tags, chosen by the clients
    Users, Passwords, DefaultUser, DefaultPassword,
    Messages,         \* what is published: headers and body together
    Unsendable,       \* those whose body or headers cannot be encoded
    DeliveryTags      \* the range of randint(1, 2**31)

ASSUME BrokerAssumption ==
    /\ DefaultExchange \in Exchanges
    /\ DefaultType \in Types
    /\ DefaultUser \in Users
    /\ DefaultPassword \in Passwords
    /\ Unsendable \subseteq Messages

VARIABLES
    exchanges,                 \* name -> [type, messages]
    queues,                    \* name -> [messages, consumers]
    queues_bound_exchanges,    \* exchange name -> set of queue names
    authentication_tried_on,   \* user name -> outcome of the last attempt
    message_acknowledged,      \* delivery tags
    message_not_acknowledged,
    message_requeued,
    closing,                   \* connections whose transport.is_closing()
    pushed,                    \* history: deliveries push_message wrote to the end
    issued                     \* history: tags returned to the publisher

routing == <<exchanges, queues, queues_bound_exchanges>>
settled == <<message_acknowledged, message_not_acknowledged, message_requeued>>
outputs == <<pushed, issued>>
tables  == <<routing, authentication_tried_on, settled, outputs>>
brokerVars == <<tables, closing>>

-----------------------------------------------------------------------------
(* Dictionaries *)

EmptyDict == [k \in {} |-> {}]

\* f[k] = v
Put(f, k, v) == [x \in DOMAIN f \cup {k} |-> IF x = k THEN v ELSE f[x]]

IsDict(f, K, V) == DOMAIN f \subseteq K /\ \A k \in DOMAIN f : f[k] \in V

Elements(s) == {s[i] : i \in DOMAIN s}

Exchange == [type : Types, messages : Seq(Messages)]
Consumer == [tag : ConsumerTags, conn : Conns, chan : Channels]
Queue    == [messages : Seq(Messages), consumers : Seq(Consumer)]
Push     == [conn : Conns, chan : Channels, ctag : ConsumerTags,
             dtag : DeliveryTags, msg : Messages]
Issue    == [dtag : DeliveryTags, msg : Messages]

EmptyQueue == [messages |-> <<>>, consumers |-> <<>>]

\* queues_bound_exchanges.get(exchange_name, set())
BoundTo(e) ==
    IF e \in DOMAIN queues_bound_exchanges THEN queues_bound_exchanges[e] ELSE {}

-----------------------------------------------------------------------------
(* The initial tables, and the MOCK_FLUSH that restores them *)

OnlyDefaultExchange ==
    [e \in {DefaultExchange} |-> [type |-> DefaultType, messages |-> <<>>]]

BrokerInit ==
    /\ exchanges = OnlyDefaultExchange
    /\ queues = EmptyDict
    /\ queues_bound_exchanges = EmptyDict
    /\ authentication_tried_on = EmptyDict
    /\ message_acknowledged = {}
    /\ message_not_acknowledged = {}
    /\ message_requeued = {}
    /\ closing = {}
    /\ pushed = {}
    /\ issued = {}

\* Regression: a reset that keeps the bindings.
reset_keeps_bindings ==
    /\ exchanges' = OnlyDefaultExchange
    /\ queues' = EmptyDict
    /\ authentication_tried_on' = EmptyDict
    /\ message_acknowledged' = {}
    /\ message_not_acknowledged' = {}
    /\ message_requeued' = {}
    /\ UNCHANGED <<queues_bound_exchanges, outputs>>

\* What was already written to a transport or answered to a publisher stays so.
reset ==
    /\ exchanges' = OnlyDefaultExchange
    /\ queues' = EmptyDict
    /\ queues_bound_exchanges' = EmptyDict
    /\ authentication_tried_on' = EmptyDict
    /\ message_acknowledged' = {}
    /\ message_not_acknowledged' = {}
    /\ message_requeued' = {}
    /\ UNCHANGED outputs

-----------------------------------------------------------------------------
(* Credentials, exchanges, queues and bindings *)

Authenticated(u, p) == u = DefaultUser /\ p = DefaultPassword

check_credentials(u, p) ==
    /\ authentication_tried_on' =
           Put(authentication_tried_on, u, Authenticated(u, p))
    /\ UNCHANGED <<routing, settled, outputs>>

\* The return value: FALSE when redeclared with a different type.
DeclaredAs(e, t) == e \notin DOMAIN exchanges \/ exchanges[e].type = t

declare_exchange(e, t) ==
    /\ exchanges' = IF e \in DOMAIN exchanges THEN exchanges
                    ELSE Put(exchanges, e, [type |-> t, messages |-> <<>>])
    /\ UNCHANGED <<queues, queues_bound_exchanges, authentication_tried_on,
                   settled, outputs>>

\* Regression: a new queue is not bound to the default exchange.
declare_queue_unbound(q) ==
    /\ queues' = IF q \in DOMAIN queues THEN queues ELSE Put(queues, q, EmptyQueue)
    /\ UNCHANGED <<exchanges, queues_bound_exchanges, authentication_tried_on,
                   settled, outputs>>

declare_queue(q) ==
    /\ IF q \in DOMAIN queues
       THEN UNCHANGED <<queues, queues_bound_exchanges>>
       ELSE /\ queues' = Put(queues, q, EmptyQueue)
            /\ queues_bound_exchanges' =
                   IF DefaultExchange \in DOMAIN exchanges
                   THEN Put(queues_bound_exchanges, DefaultExchange,
                            BoundTo(DefaultExchange) \cup {q})
                   ELSE queues_bound_exchanges
    /\ UNCHANGED <<exchanges, authentication_tried_on, settled, outputs>>

\* The return value of bind_queue.
Bindable(q, e) == e \in DOMAIN exchanges /\ q \in DOMAIN queues

bind_queue(q, e) ==
    /\ queues_bound_exchanges' =
           IF Bindable(q, e)
           THEN Put(queues_bound_exchanges, e, BoundTo(e) \cup {q})
           ELSE queues_bound_exchanges
    /\ UNCHANGED <<exchanges, queues, authentication_tried_on, settled, outputs>>

-----------------------------------------------------------------------------
(* Consumers *)

\* Regression: a registration is appended even when the tag is already a key.
Enter_appends(s, k) == Append(s, k)

\* consumers[consumer_tag] = ...: an assignment to a key already present keeps
\* the position of the key and replaces the connection and the channel.
Enter(s, k) ==
    IF \E i \in DOMAIN s : s[i].tag = k.tag
    THEN [i \in DOMAIN s |-> IF s[i].tag = k.tag THEN k ELSE s[i]]
    ELSE Append(s, k)

register_consumer(c, ct, q, ch) ==
    /\ queues' =
           IF q \in DOMAIN queues
           THEN [queues EXCEPT ![q].consumers =
                     Enter(@, [tag |-> ct, conn |-> c, chan |-> ch])]
           ELSE queues
    /\ UNCHANGED <<exchanges, queues_bound_exchanges, authentication_tried_on,
                   settled, outputs>>

(***************************************************************************)
(* The loop over the consumers of a queue shared by both publish methods:  *)
(* it collects the dead ones, pushes to the first live one and breaks; the *)
(* dead ones it has met, the first `dead' entries of s, are then deleted.  *)
(***************************************************************************)
Met(s, dead) ==
    /\ \A i \in 1 .. dead : s[i].conn \in closing
    /\ dead < Len(s) => s[dead + 1].conn \notin closing

\* Regression: the entry the loop stopped at is deleted with the dead ones.
Survivors_off_by_one(s, dead) == SubSeq(s, dead + 2, Len(s))

Survivors(s, dead) == SubSeq(s, dead + 1, Len(s))

\* Regression: no break, every consumer after the dead ones is sent the message.
Receivers_no_break(s, dead) == (dead + 1) .. Len(s)

Receivers(s, dead) == {dead + 1} \cap DOMAIN s

\* Regression: the tag is forgotten when a dead consumer was met on the way.
Visited_live_only(s, dead) == {i \in DOMAIN s : dead = 0}

\* A tag is drawn at each visit and the last one returned: None if there is no
\* consumer at all.
Visited(s, dead) == DOMAIN s

\* `kept' is the deque of q afterwards.  A message that cannot be encoded raises
\* when it is pushed: the deques keep it, nothing is deleted, no tag is returned.
Offer(q, kept, m, t) ==
    LET s == queues[q].consumers IN
    \E dead \in 0 .. Len(s) :
        /\ Met(s, dead)
        /\ IF m \in Unsendable /\ dead < Len(s)
           THEN /\ queues' = [queues EXCEPT ![q].messages = kept]
                /\ UNCHANGED outputs
           ELSE /\ queues' = [queues EXCEPT ![q] =
                                 [messages  |-> kept,
                                  consumers |-> Survivors(s, dead)]]
                /\ pushed' = pushed \cup
                      {[conn |-> s[i].conn, chan |-> s[i].chan, ctag |-> s[i].tag,
                        dtag |-> t, msg |-> m] : i \in Receivers(s, dead)}
                /\ issued' = issued \cup
                      {[dtag |-> t, msg |-> m] : i \in Visited(s, dead)}

-----------------------------------------------------------------------------
(* Messages *)

delete_messages_of_queue(q) ==
    /\ queues' = IF q \in DOMAIN queues
                 THEN [queues EXCEPT ![q].messages = <<>>] ELSE queues
    /\ UNCHANGED <<exchanges, queues_bound_exchanges, authentication_tried_on,
                   settled, outputs>>

delete_messages_of_exchange(e) ==
    /\ exchanges' = IF e \in DOMAIN exchanges
                    THEN [exchanges EXCEPT ![e].messages = <<>>] ELSE exchanges
    /\ UNCHANGED <<queues, queues_bound_exchanges, authentication_tried_on,
                   settled, outputs>>

Keep(e, m) == [exchanges EXCEPT ![e].messages = Append(@, m)]

\* A worker's basic.publish: kept by the exchange and by every bound queue.
store_message(e, m) ==
    /\ IF e \notin DOMAIN exchanges
       THEN UNCHANGED <<exchanges, queues>>
       ELSE /\ exchanges' = Keep(e, m)
            /\ queues' = [q \in DOMAIN queues |->
                              IF q \in BoundTo(e)
                              THEN [queues[q] EXCEPT !.messages = Append(@, m)]
                              ELSE queues[q]]
    /\ UNCHANGED <<queues_bound_exchanges, authentication_tried_on, settled,
                   outputs>>

\* POST /add-message-on/: the loop over the bound queues returns in its first
\* iteration, so one queue at most, whichever the set yields, is served.
publish_message(e, m, t) ==
    /\ IF e \notin DOMAIN exchanges
       THEN UNCHANGED <<exchanges, queues, outputs>>
       ELSE /\ exchanges' = Keep(e, m)
            /\ \/ /\ BoundTo(e) = {}
                  /\ UNCHANGED <<queues, outputs>>
               \/ \E q \in BoundTo(e) : Offer(q, queues[q].messages, m, t)
    /\ UNCHANGED <<queues_bound_exchanges, authentication_tried_on, settled>>

\* POST /add-message-in-queue/
publish_message_in_queue(q, m, t) ==
    /\ IF q \notin DOMAIN queues
       THEN UNCHANGED <<queues, outputs>>
       ELSE Offer(q, Append(queues[q].messages, m), m, t)
    /\ UNCHANGED <<exchanges, queues_bound_exchanges, authentication_tried_on,
                   settled>>

\* Tags are recorded as the worker names them: nothing relates them to pushed.
message_ack(t) ==
    /\ message_acknowledged' = message_acknowledged \cup {t}
    /\ UNCHANGED <<routing, authentication_tried_on, message_not_acknowledged,
                   message_requeued, outputs>>

message_nack(t, requeue) ==
    /\ IF requeue
       THEN /\ message_requeued' = message_requeued \cup {t}
            /\ UNCHANGED message_not_acknowledged
       ELSE /\ message_not_acknowledged' = message_not_acknowledged \cup {t}
            /\ UNCHANGED message_requeued
    /\ UNCHANGED <<routing, authentication_tried_on, message_acknowledged, outputs>>

-----------------------------------------------------------------------------
(* Every order of calls the two protocols can make *)

Operation ==
    \/ reset
    \/ \E u \in Users, p \in Passwords : check_credentials(u, p)
    \/ \E e \in Exchanges, t \in Types : declare_exchange(e, t)
    \/ \E q \in Queues : declare_queue(q)
    \/ \E q \in Queues, e \in Exchanges : bind_queue(q, e)
    \/ \E c \in Conns, ct \in ConsumerTags, q \in Queues, ch \in Channels :
           register_consumer(c, ct, q, ch)
    \/ \E q \in Queues : delete_messages_of_queue(q)
    \/ \E e \in Exchanges : delete_messages_of_exchange(e)
    \/ \E e \in Exchanges, m \in Messages : store_message(e, m)
    \/ \E e \in Exchanges, m \in Messages, t \in DeliveryTags :
           publish_message(e, m, t)
    \/ \E q \in Queues, m \in Messages, t \in DeliveryTags :
           publish_message_in_queue(q, m, t)
    \/ \E t \in DeliveryTags : message_ack(t)
    \/ \E t \in DeliveryTags, requeue \in BOOLEAN : message_nack(t, requeue)

\* A transport starts closing: the peer went away, or the handler of one of its
\* frames called transport.close(), possibly right after refusing credentials.
Hangup(c) ==
    /\ closing' = closing \cup {c}
    /\ \/ UNCHANGED tables
       \/ \E u \in Users, p \in Passwords :
              ~Authenticated(u, p) /\ check_credentials(u, p)

BrokerNext ==
    \/ Operation /\ UNCHANGED closing
    \/ \E c \in Conns : Hangup(c)

BrokerSpec == BrokerInit /\ [][BrokerNext]_brokerVars

-----------------------------------------------------------------------------
(* Properties *)

\* The tables hold what the methods assume of them; a consumer tag is a key, so
\* it occurs once among the consumers of a queue.
UniqueTags(s) == \A i, j \in DOMAIN s : s[i].tag = s[j].tag => i = j

BrokerTypeOK ==
    /\ IsDict(exchanges, Exchanges, Exchange)
    /\ IsDict(queues, Queues, Queue)
    /\ \A q \in DOMAIN queues : UniqueTags(queues[q].consumers)
    /\ IsDict(queues_bound_exchanges, Exchanges, SUBSET Queues)
    /\ IsDict(authentication_tried_on, Users, BOOLEAN)
    /\ message_acknowledged \subseteq DeliveryTags
    /\ message_not_acknowledged \subseteq DeliveryTags
    /\ message_requeued \subseteq DeliveryTags
    /\ closing \subseteq Conns
    /\ pushed \subseteq Push
    /\ issued \subseteq Issue

\* Every binding names a declared exchange and declared queues: the lookups
\* self._queues[queue_name] made while routing (state.py:203, 252) never raise
\* KeyError, whatever flushes and declarations came before.
BindingsResolve ==
    \A e \in DOMAIN queues_bound_exchanges :
        /\ e \in DOMAIN exchanges
        /\ queues_bound_exchanges[e] \subseteq DOMAIN queues

\* "by default all queues are bound to the default exchange" (state.py:104):
\* the default exchange always exists and reaches every declared queue.
DefaultBinding ==
    /\ DefaultExchange \in DOMAIN exchanges
    /\ DOMAIN queues \subseteq BoundTo(DefaultExchange)

\* Whatever is pushed to a worker was answered to the publisher with its tag, so
\* the test can wait for the settlement of that very delivery.
PushedTagIsIssued ==
    \A p \in pushed : [dtag |-> p.dtag, msg |-> p.msg] \in issued

\* "a message is only sent to one consumer per queue" (state.py:277): a step
\* pushes to one consumer at most, one that is registered and not closing.
OneLiveReceiver ==
    [][\A p \in pushed' \ pushed :
          /\ p.conn \notin closing
          /\ \E q \in DOMAIN queues : [tag |-> p.ctag, conn |-> p.conn,
                                       chan |-> p.chan] \in
                                      Elements(queues[q].consumers)
          /\ \A p2 \in pushed' \ pushed : p2 = p]_brokerVars

\* The cleaning of dead consumers (state.py:259-283) never loses a live one:
\* only a flush, or another registration under the same tag, removes it.
LiveConsumersKept ==
    [][\A q \in DOMAIN queues : \A k \in Elements(queues[q].consumers) :
          k.conn \notin closing =>
              \/ queues' = EmptyDict
              \/ /\ q \in DOMAIN queues'
                 /\ \E k2 \in Elements(queues'[q].consumers) :
                        /\ k2.tag = k.tag
                        /\ k2 # k => UNCHANGED outputs]_brokerVars

\* "we clean dead connections, otherwise they will accumulate" (state.py:259):
\* a publication that reaches a queue leaves no dead consumer registered there.
PublishCleansDead ==
    [][\A q \in DOMAIN queues :
          (issued' # issued /\ queues'[q] # queues[q]) =>
              \A k \in Elements(queues'[q].consumers) : k.conn \notin closing]_brokerVars

\* "Publish message to a worker" (state.py:234): a tag returned to the publisher,
\* which HTTP answers with 200, is the tag of a message pushed to a worker.
IssuedIsPushed ==
    \A r \in issued : \E p \in pushed : p.dtag = r.dtag /\ p.msg = r.msg
=============================================================================
