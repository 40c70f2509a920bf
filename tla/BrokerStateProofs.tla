------------------------- MODULE BrokerStateProofs -------------------------
(***************************************************************************)
(* What the broker tables guarantee for every set of exchanges, queues,    *)
(* connections, tags, users and messages.  BrokerInv is inductive: the     *)
(* bindings must resolve for a routing step to be typed, and the default   *)
(* binding needs the default exchange to be there when a queue is new.     *)
(***************************************************************************)
EXTENDS BrokerState, SequenceTheorems, TLAPS

BrokerInv ==
    /\ BrokerTypeOK
    /\ BindingsResolve
    /\ DefaultBinding
    /\ PushedTagIsIssued

-----------------------------------------------------------------------------
(* Dictionaries and the entries of a queue's consumers *)

\* Assigning to a key of a dictionary (f[k] = v) keeps its type and adds the key.
LEMMA PutDict ==
    ASSUME NEW K, NEW V, NEW f, IsDict(f, K, V), NEW k \in K, NEW v \in V
    PROVE  /\ IsDict(Put(f, k, v), K, V)
           /\ DOMAIN Put(f, k, v) = DOMAIN f \cup {k}
           /\ Put(f, k, v)[k] = v
           /\ \A x \in DOMAIN f : x # k => Put(f, k, v)[x] = f[x]
BY DEF IsDict, Put

\* consumers[consumer_tag] = ... (state.py:140) keeps the tags of a queue unique.
LEMMA EnterConsumer ==
    ASSUME NEW s \in Seq(Consumer), UniqueTags(s), NEW k \in Consumer
    PROVE  /\ Enter(s, k) \in Seq(Consumer)
           /\ UniqueTags(Enter(s, k))
           /\ \A x \in Elements(Enter(s, k)) : x = k \/ x \in Elements(s)
           /\ \A x \in Elements(s) : \E y \in Elements(Enter(s, k)) :
                  y.tag = x.tag /\ (y = x \/ y = k)
<1>1. CASE \E i \in DOMAIN s : s[i].tag = k.tag
  <2> DEFINE r == [i \in DOMAIN s |-> IF s[i].tag = k.tag THEN k ELSE s[i]]
  <2>1. Enter(s, k) = r
    BY <1>1 DEF Enter
  <2>a. DOMAIN s = 1 .. Len(s) /\ \A i \in 1 .. Len(s) : s[i] \in Consumer
    BY ElementOfSeq
  <2>2. /\ DOMAIN r = 1 .. Len(s)
        /\ \A i \in 1 .. Len(s) : /\ r[i] \in Consumer /\ r[i].tag = s[i].tag
                                  /\ r[i] = s[i] \/ r[i] = k
    BY <2>a
  <2>3. r \in [1 .. Len(s) -> Consumer]
    BY <2>2
  <2>4. r \in Seq(Consumer)
    BY <2>3 DEF Seq
  <2> HIDE DEF r
  <2>5. UniqueTags(r)
    BY <2>a, <2>2 DEF UniqueTags
  <2> QED BY <2>a, <2>1, <2>2, <2>4, <2>5 DEF Elements
<1>2. CASE ~ \E i \in DOMAIN s : s[i].tag = k.tag
  <2>1. Enter(s, k) = Append(s, k)
    BY <1>2 DEF Enter
  <2>2. /\ Append(s, k) \in Seq(Consumer)
        /\ DOMAIN Append(s, k) = 1 .. Len(s) + 1
        /\ \A i \in 1 .. Len(s) : Append(s, k)[i] = s[i]
        /\ Append(s, k)[Len(s) + 1] = k
        /\ Len(s) \in Nat /\ DOMAIN s = 1 .. Len(s)
    BY AppendProperties
  <2>3. UniqueTags(Append(s, k))
    BY <1>2, <2>2 DEF UniqueTags
  <2>4. \A x \in Elements(Append(s, k)) : x = k \/ x \in Elements(s)
    BY <2>2 DEF Elements
  <2>5. \A x \in Elements(s) : x \in Elements(Append(s, k))
    BY <2>2 DEF Elements
  <2> QED BY <2>1, <2>2, <2>3, <2>4, <2>5
<1> QED BY <1>1, <1>2

\* The bounds of SubSeq(s, d + 1, Len(s)), what remains past `dead' (state.py:281).
LEMMA PastDead ==
    ASSUME NEW n \in Nat, NEW d \in 0 .. n
    PROVE  /\ d \in Int /\ n \in Int /\ d + 1 \in Int
           /\ (IF d + 1 <= n THEN n - (d + 1) + 1 ELSE 0) = n - d
           /\ n - (d + 1) + 1 = n - d
           /\ \A i \in 1 .. n - d : d + 1 + i - 1 = d + i /\ d + i \in 1 .. n
           /\ \A i \in 1 .. n : i > d => i - d \in 1 .. n - d /\ d + (i - d) = i
OBVIOUS

\* What is left after the first `dead' entries are deleted (state.py:281-283).
LEMMA SurvivingConsumers ==
    ASSUME NEW s \in Seq(Consumer), UniqueTags(s), NEW dead \in 0 .. Len(s)
    PROVE  /\ Survivors(s, dead) \in Seq(Consumer)
           /\ UniqueTags(Survivors(s, dead))
           /\ Elements(Survivors(s, dead)) \subseteq Elements(s)
           /\ \A i \in DOMAIN s : i > dead => s[i] \in Elements(Survivors(s, dead))
<1> DEFINE r == SubSeq(s, dead + 1, Len(s))
<1>1. Len(s) \in Nat /\ DOMAIN s = 1 .. Len(s)
  OBVIOUS
<1>2. \A i \in dead + 1 .. Len(s) : s[i] \in Consumer
  BY <1>1, ElementOfSeq
<1>3. /\ r \in Seq(Consumer)
      /\ Len(r) = Len(s) - dead
      /\ \A i \in 1 .. Len(s) - dead : r[i] = s[dead + i]
  <2>a. dead + 1 \in Int /\ Len(s) \in Int
    BY <1>1, PastDead, SMTT(60)
  <2>1. /\ (IF dead + 1 <= Len(s) THEN Len(s) - (dead + 1) + 1 ELSE 0) = Len(s) - dead
        /\ Len(s) - (dead + 1) + 1 = Len(s) - dead
        /\ \A i \in 1 .. Len(s) - dead : dead + 1 + i - 1 = dead + i
    BY <1>1, PastDead, ZenonT(60)
  <2>2. /\ r \in Seq(Consumer)
        /\ Len(r) = IF dead + 1 <= Len(s) THEN Len(s) - (dead + 1) + 1 ELSE 0
        /\ \A i \in 1 .. Len(s) - (dead + 1) + 1 : r[i] = s[dead + 1 + i - 1]
    BY <2>a, <1>2, SubSeqProperties
  <2> HIDE DEF r
  <2> QED BY <2>1, <2>2, Zenon
<1>4. DOMAIN r = 1 .. Len(s) - dead /\ \A i \in DOMAIN r : r[i] = s[dead + i] /\ dead + i \in DOMAIN s
  <2>1. DOMAIN r = 1 .. Len(r)
    BY <1>3
  <2> QED BY <2>1, <1>1, <1>3, PastDead
<1> HIDE DEF r
<1>5. UniqueTags(r)
  BY <1>1, <1>4 DEF UniqueTags
<1>6. Elements(r) \subseteq Elements(s)
  BY <1>1, <1>4 DEF Elements
<1>7. ASSUME NEW i \in DOMAIN s, i > dead PROVE s[i] \in Elements(r)
  <2>1. i - dead \in DOMAIN r /\ r[i - dead] = s[i]
    BY <1>1, <1>4, <1>7, PastDead
  <2> QED BY <2>1 DEF Elements
<1> QED BY <1>3, <1>5, <1>6, <1>7 DEF r, Survivors

-----------------------------------------------------------------------------
(* The loop of the two publish methods over the consumers of a queue *)

\* Offering a message (state.py:251-287, 308-341) keeps the tables typed and the
\* keys of the queues, and issues whatever it pushes.
LEMMA OfferKeeps ==
    ASSUME BrokerTypeOK, PushedTagIsIssued,
           NEW q \in DOMAIN queues, NEW kept \in Seq(Messages),
           NEW m \in Messages, NEW t \in DeliveryTags, Offer(q, kept, m, t)
    PROVE  /\ IsDict(queues', Queues, Queue)
           /\ DOMAIN queues' = DOMAIN queues
           /\ \A x \in DOMAIN queues' : UniqueTags(queues'[x].consumers)
           /\ pushed' \subseteq Push
           /\ issued' \subseteq Issue
           /\ PushedTagIsIssued'
<1> DEFINE s == queues[q].consumers
<1>1. PICK dead \in 0 .. Len(s) :
          /\ Met(s, dead)
          /\ IF m \in Unsendable /\ dead < Len(s)
             THEN /\ queues' = [queues EXCEPT ![q].messages = kept]
                  /\ UNCHANGED outputs
             ELSE /\ queues' = [queues EXCEPT ![q] =
                                   [messages  |-> kept,
                                    consumers |-> Survivors(s, dead)]]
                  /\ pushed' = pushed \cup
                        {[conn |-> s[i].conn, chan |-> s[i].chan, ctag |-> s[i].tag,
                          dtag |-> t, msg |-> m] : i \in Receivers(s, dead)}
                  /\ issued' = issued \cup
                        {[dtag |-> t, msg |-> m] : i \in Visited(s, dead)}
  BY DEF Offer
<1>2. /\ IsDict(queues, Queues, Queue)
      /\ \A x \in DOMAIN queues : queues[x] \in Queue /\ UniqueTags(queues[x].consumers)
      /\ pushed \subseteq Push /\ issued \subseteq Issue
  BY DEF BrokerTypeOK, IsDict
<1>3. s \in Seq(Consumer) /\ UniqueTags(s)
  BY <1>2 DEF Queue
<1>4. Survivors(s, dead) \in Seq(Consumer) /\ UniqueTags(Survivors(s, dead))
  BY <1>3, SurvivingConsumers
<1>5. \A i \in DOMAIN s : s[i] \in Consumer
  BY <1>3, ElementOfSeq
<1> HIDE DEF s
<1>6. CASE m \in Unsendable /\ dead < Len(s)
  <2>1. queues' = [queues EXCEPT ![q].messages = kept] /\ UNCHANGED <<pushed, issued>>
    BY <1>1, <1>6 DEF outputs
  <2> QED BY <1>2, <2>1 DEF IsDict, Queue, PushedTagIsIssued
<1>7. CASE ~ (m \in Unsendable /\ dead < Len(s))
  <2> DEFINE d == [messages |-> kept, consumers |-> Survivors(s, dead)]
             P == {[conn |-> s[i].conn, chan |-> s[i].chan, ctag |-> s[i].tag,
                    dtag |-> t, msg |-> m] : i \in Receivers(s, dead)}
             I == {[dtag |-> t, msg |-> m] : i \in Visited(s, dead)}
  <2>1. /\ queues' = [queues EXCEPT ![q] = d]
        /\ pushed' = pushed \cup P
        /\ issued' = issued \cup I
    BY <1>1, <1>7
  <2>2. d \in Queue /\ UniqueTags(d.consumers)
    BY <1>4 DEF Queue
  <2> HIDE DEF d
  <2>3. /\ IsDict(queues', Queues, Queue)
        /\ DOMAIN queues' = DOMAIN queues
        /\ \A x \in DOMAIN queues' : UniqueTags(queues'[x].consumers)
    BY <1>2, <2>1, <2>2 DEF IsDict
  <2>4. P \subseteq Push /\ \A p \in P : [dtag |-> p.dtag, msg |-> p.msg] \in I
    BY <1>5 DEF Push, Consumer, Receivers, Visited
  <2>5. I \subseteq Issue
    BY DEF Issue
  <2> HIDE DEF P, I
  <2>6. PushedTagIsIssued'
    BY <2>1, <2>4 DEF PushedTagIsIssued
  <2> QED BY <1>2, <2>1, <2>3, <2>4, <2>5, <2>6
<1> QED BY <1>6, <1>7

-----------------------------------------------------------------------------
(* BrokerInv is inductive *)

\* The tables __init__ creates (state.py:18-34).
LEMMA InitInv == BrokerInit => BrokerInv
<1> SUFFICES ASSUME BrokerInit PROVE BrokerInv
  OBVIOUS
<1>1. IsDict(exchanges, Exchanges, Exchange)
  BY BrokerAssumption, EmptySeq DEF BrokerInit, OnlyDefaultExchange, IsDict, Exchange
<1>2. /\ IsDict(queues, Queues, Queue)
      /\ \A q \in DOMAIN queues : UniqueTags(queues[q].consumers)
      /\ IsDict(queues_bound_exchanges, Exchanges, SUBSET Queues)
      /\ IsDict(authentication_tried_on, Users, BOOLEAN)
  BY DEF BrokerInit, EmptyDict, IsDict
<1>3. BrokerTypeOK
  BY <1>1, <1>2 DEF BrokerTypeOK, BrokerInit
<1>4. BindingsResolve /\ DefaultBinding /\ PushedTagIsIssued
  BY DEF BrokerInit, EmptyDict, OnlyDefaultExchange, BindingsResolve, DefaultBinding,
         PushedTagIsIssued
<1> QED BY <1>3, <1>4 DEF BrokerInv

\* A flush (state.py:36-52) is a new start, but for what was already sent.
LEMMA ResetStep == ASSUME BrokerInv, reset, closing' \subseteq Conns PROVE BrokerInv'
<1>1. IsDict(exchanges', Exchanges, Exchange)
  BY BrokerAssumption, EmptySeq DEF reset, OnlyDefaultExchange, IsDict, Exchange
<1>2. /\ IsDict(queues', Queues, Queue)
      /\ \A q \in DOMAIN queues' : UniqueTags(queues'[q].consumers)
      /\ IsDict(queues_bound_exchanges', Exchanges, SUBSET Queues)
      /\ IsDict(authentication_tried_on', Users, BOOLEAN)
  BY DEF reset, EmptyDict, IsDict
<1>3. BrokerTypeOK'
  BY <1>1, <1>2 DEF BrokerTypeOK, BrokerInv, reset, outputs
<1>4. BindingsResolve' /\ DefaultBinding' /\ PushedTagIsIssued'
  BY DEF reset, EmptyDict, OnlyDefaultExchange, BindingsResolve, DefaultBinding,
         PushedTagIsIssued, BrokerInv, outputs
<1> QED BY <1>3, <1>4 DEF BrokerInv

\* An authentication attempt (state.py:77-83) is recorded and changes no routing.
LEMMA CredentialsStep ==
    ASSUME BrokerInv, NEW u \in Users, NEW pw, check_credentials(u, pw),
           closing' \subseteq Conns
    PROVE  BrokerInv'
<1>1. IsDict(authentication_tried_on', Users, BOOLEAN)
  <2>1. Authenticated(u, pw) \in BOOLEAN
    BY DEF Authenticated
  <2> QED BY <2>1, PutDict DEF check_credentials, BrokerInv, BrokerTypeOK
<1> QED BY <1>1 DEF check_credentials, BrokerInv, BrokerTypeOK, BindingsResolve,
           DefaultBinding, PushedTagIsIssued, BoundTo, routing, settled, outputs

\* Declaring an exchange (state.py:85-95) never replaces one.
LEMMA DeclareExchangeStep ==
    ASSUME BrokerInv, NEW e \in Exchanges, NEW ty \in Types, declare_exchange(e, ty),
           closing' \subseteq Conns
    PROVE  BrokerInv'
<1>1. IsDict(exchanges', Exchanges, Exchange) /\ DOMAIN exchanges \subseteq DOMAIN exchanges'
  <2> DEFINE d == [type |-> ty, messages |-> <<>>]
  <2>1. d \in Exchange
    BY EmptySeq DEF Exchange
  <2>2. IsDict(exchanges, Exchanges, Exchange)
    BY DEF BrokerInv, BrokerTypeOK
  <2>3. CASE e \in DOMAIN exchanges
    BY <2>2, <2>3 DEF declare_exchange
  <2>4. CASE e \notin DOMAIN exchanges
    <3>1. exchanges' = Put(exchanges, e, d)
      BY <2>4 DEF declare_exchange
    <3> HIDE DEF d
    <3>2. /\ IsDict(Put(exchanges, e, d), Exchanges, Exchange)
          /\ DOMAIN Put(exchanges, e, d) = DOMAIN exchanges \cup {e}
      BY <2>1, <2>2, PutDict
    <3> QED BY <3>1, <3>2
  <2> QED BY <2>3, <2>4
<1> QED BY <1>1 DEF declare_exchange, BrokerInv, BrokerTypeOK, BindingsResolve,
           DefaultBinding, PushedTagIsIssued, BoundTo, settled, outputs

\* A new queue (state.py:97-106) is bound to the default exchange, always there.
LEMMA DeclareQueueStep ==
    ASSUME BrokerInv, NEW q \in Queues, declare_queue(q), closing' \subseteq Conns
    PROVE  BrokerInv'
<1>1. CASE q \in DOMAIN queues
  BY <1>1 DEF declare_queue, BrokerInv, BrokerTypeOK, BindingsResolve,
         DefaultBinding, PushedTagIsIssued, BoundTo, settled, outputs
<1>2. CASE q \notin DOMAIN queues
  <2> DEFINE bound == BoundTo(DefaultExchange) \cup {q}
  <2>1. /\ queues' = Put(queues, q, EmptyQueue)
        /\ queues_bound_exchanges' = Put(queues_bound_exchanges, DefaultExchange, bound)
    BY <1>2 DEF declare_queue, BrokerInv, DefaultBinding
  <2>2. /\ IsDict(queues, Queues, Queue)
        /\ IsDict(queues_bound_exchanges, Exchanges, SUBSET Queues)
    BY DEF BrokerInv, BrokerTypeOK
  <2>3. EmptyQueue \in Queue /\ UniqueTags(EmptyQueue.consumers)
    BY EmptySeq DEF EmptyQueue, Queue, UniqueTags
  <2>4. /\ IsDict(queues', Queues, Queue)
        /\ DOMAIN queues' = DOMAIN queues \cup {q}
        /\ \A x \in DOMAIN queues' : UniqueTags(queues'[x].consumers)
    BY <2>1, <2>2, <2>3, PutDict DEF BrokerInv, BrokerTypeOK
  <2>5. bound \in SUBSET Queues /\ bound \subseteq DOMAIN queues \cup {q}
        /\ DOMAIN queues \cup {q} \subseteq bound
    BY <2>2 DEF BoundTo, IsDict, BrokerInv, BindingsResolve, DefaultBinding
  <2> HIDE DEF bound
  <2>6. /\ IsDict(queues_bound_exchanges', Exchanges, SUBSET Queues)
        /\ DOMAIN queues_bound_exchanges' =
               DOMAIN queues_bound_exchanges \cup {DefaultExchange}
        /\ queues_bound_exchanges'[DefaultExchange] = bound
        /\ \A x \in DOMAIN queues_bound_exchanges :
               x # DefaultExchange =>
                   queues_bound_exchanges'[x] = queues_bound_exchanges[x]
    <3>1. DefaultExchange \in Exchanges /\ bound \in SUBSET Queues
      BY <2>5, BrokerAssumption
    <3> QED BY <2>1, <2>2, <3>1, PutDict
  <2>7. BrokerTypeOK' /\ PushedTagIsIssued'
    BY <2>4, <2>6 DEF declare_queue, BrokerInv, BrokerTypeOK, PushedTagIsIssued,
           settled, outputs
  <2>8. BindingsResolve' /\ DefaultBinding'
    BY <2>4, <2>5, <2>6 DEF declare_queue, BrokerInv, BindingsResolve, DefaultBinding, BoundTo
  <2> QED BY <2>7, <2>8 DEF BrokerInv
<1> QED BY <1>1, <1>2

\* A binding (state.py:114-127) is made between what is declared.
LEMMA BindQueueStep ==
    ASSUME BrokerInv, NEW q \in Queues, NEW e \in Exchanges, bind_queue(q, e),
           closing' \subseteq Conns
    PROVE  BrokerInv'
<1>1. CASE ~Bindable(q, e)
  BY <1>1 DEF bind_queue, BrokerInv, BrokerTypeOK, BindingsResolve,
         DefaultBinding, PushedTagIsIssued, BoundTo, settled, outputs
<1>2. CASE Bindable(q, e)
  <2> DEFINE bound == BoundTo(e) \cup {q}
  <2>1. queues_bound_exchanges' = Put(queues_bound_exchanges, e, bound)
    BY <1>2 DEF bind_queue
  <2>2. IsDict(queues_bound_exchanges, Exchanges, SUBSET Queues)
    BY DEF BrokerInv, BrokerTypeOK
  <2>3. bound \in SUBSET Queues /\ bound \subseteq DOMAIN queues /\ BoundTo(e) \subseteq bound
    BY <1>2, <2>2 DEF Bindable, BoundTo, IsDict, BrokerInv, BindingsResolve
  <2> HIDE DEF bound
  <2>4. /\ IsDict(queues_bound_exchanges', Exchanges, SUBSET Queues)
        /\ DOMAIN queues_bound_exchanges' = DOMAIN queues_bound_exchanges \cup {e}
        /\ queues_bound_exchanges'[e] = bound
        /\ \A x \in DOMAIN queues_bound_exchanges :
               x # e => queues_bound_exchanges'[x] = queues_bound_exchanges[x]
    BY <2>1, <2>2, <2>3, PutDict
  <2>5. BrokerTypeOK' /\ PushedTagIsIssued'
    BY <2>4 DEF bind_queue, BrokerInv, BrokerTypeOK, PushedTagIsIssued, settled, outputs
  <2>6. BindingsResolve'
    BY <1>2, <2>3, <2>4 DEF bind_queue, BrokerInv, BindingsResolve, Bindable
  <2>7. DefaultBinding'
    BY <2>3, <2>4 DEF bind_queue, BrokerInv, DefaultBinding, BoundTo
  <2> QED BY <2>5, <2>6, <2>7 DEF BrokerInv
<1> QED BY <1>1, <1>2

\* A registration (state.py:129-144) changes the consumers of one queue.
LEMMA RegisterStep ==
    ASSUME BrokerInv, NEW c \in Conns, NEW ct \in ConsumerTags, NEW q \in Queues,
           NEW ch \in Channels, register_consumer(c, ct, q, ch), closing' \subseteq Conns
    PROVE  BrokerInv'
<1> DEFINE k == [tag |-> ct, conn |-> c, chan |-> ch]
<1>1. /\ IsDict(queues', Queues, Queue)
      /\ DOMAIN queues' = DOMAIN queues
      /\ \A x \in DOMAIN queues' : UniqueTags(queues'[x].consumers)
  <2>0. IsDict(queues, Queues, Queue) /\ \A x \in DOMAIN queues : UniqueTags(queues[x].consumers)
    BY DEF BrokerInv, BrokerTypeOK
  <2>1. CASE q \notin DOMAIN queues
    BY <2>0, <2>1 DEF register_consumer
  <2>2. CASE q \in DOMAIN queues
    <3> DEFINE s == Enter(queues[q].consumers, k)
    <3>1. k \in Consumer
      BY DEF Consumer
    <3>2. queues[q].consumers \in Seq(Consumer) /\ UniqueTags(queues[q].consumers)
      BY <2>0, <2>2 DEF IsDict, Queue
    <3>3. s \in Seq(Consumer) /\ UniqueTags(s)
      BY <3>1, <3>2, EnterConsumer
    <3>4. queues' = [queues EXCEPT ![q].consumers = s]
      BY <2>2 DEF register_consumer
    <3> HIDE DEF s, k
    <3> QED BY <2>0, <2>2, <3>3, <3>4 DEF IsDict, Queue
  <2> QED BY <2>1, <2>2
<1> QED BY <1>1 DEF register_consumer, BrokerInv, BrokerTypeOK, BindingsResolve,
           DefaultBinding, PushedTagIsIssued, BoundTo, settled, outputs

\* Emptying a deque (state.py:146-151, 159-163) keeps its entry.
LEMMA DeleteStep ==
    ASSUME BrokerInv, closing' \subseteq Conns,
           \/ \E q \in Queues : delete_messages_of_queue(q)
           \/ \E e \in Exchanges : delete_messages_of_exchange(e)
    PROVE  BrokerInv'
<1>0. IsDict(queues, Queues, Queue) /\ IsDict(exchanges, Exchanges, Exchange)
  BY DEF BrokerInv, BrokerTypeOK
<1>1. ASSUME NEW q \in Queues, delete_messages_of_queue(q) PROVE BrokerInv'
  <2>1. /\ IsDict(queues', Queues, Queue)
        /\ DOMAIN queues' = DOMAIN queues
        /\ \A x \in DOMAIN queues' : queues'[x].consumers = queues[x].consumers
    BY <1>0, <1>1, EmptySeq DEF delete_messages_of_queue, IsDict, Queue
  <2> QED BY <1>1, <2>1 DEF delete_messages_of_queue, BrokerInv, BrokerTypeOK,
             BindingsResolve, DefaultBinding, PushedTagIsIssued, BoundTo, settled, outputs
<1>2. ASSUME NEW e \in Exchanges, delete_messages_of_exchange(e) PROVE BrokerInv'
  <2>1. IsDict(exchanges', Exchanges, Exchange) /\ DOMAIN exchanges' = DOMAIN exchanges
    BY <1>0, <1>2, EmptySeq DEF delete_messages_of_exchange, IsDict, Exchange
  <2> QED BY <1>2, <2>1 DEF delete_messages_of_exchange, BrokerInv, BrokerTypeOK,
             BindingsResolve, DefaultBinding, PushedTagIsIssued, BoundTo, settled, outputs
<1> QED BY <1>1, <1>2

\* An exchange that keeps one more message.
LEMMA KeepMessage ==
    ASSUME BrokerInv, NEW e \in DOMAIN exchanges, NEW m \in Messages
    PROVE  IsDict(Keep(e, m), Exchanges, Exchange) /\ DOMAIN Keep(e, m) = DOMAIN exchanges
<1>1. /\ IsDict(exchanges, Exchanges, Exchange)
      /\ exchanges[e] \in Exchange /\ exchanges[e].messages \in Seq(Messages)
  BY DEF BrokerInv, BrokerTypeOK, IsDict, Exchange
<1> DEFINE s == Append(exchanges[e].messages, m)
<1>2. s \in Seq(Messages)
  BY <1>1, AppendProperties
<1>3. Keep(e, m) = [exchanges EXCEPT ![e].messages = s]
  BY DEF Keep
<1> HIDE DEF s
<1> QED BY <1>1, <1>2, <1>3 DEF IsDict, Exchange

\* A worker's publication (state.py:180-205) is appended to the bound deques.
LEMMA StoreStep ==
    ASSUME BrokerInv, NEW e \in Exchanges, NEW m \in Messages, store_message(e, m),
           closing' \subseteq Conns
    PROVE  BrokerInv'
<1>1. CASE e \notin DOMAIN exchanges
  BY <1>1 DEF store_message, BrokerInv, BrokerTypeOK, BindingsResolve,
         DefaultBinding, PushedTagIsIssued, BoundTo, settled, outputs
<1>2. CASE e \in DOMAIN exchanges
  <2>1. IsDict(exchanges', Exchanges, Exchange) /\ DOMAIN exchanges' = DOMAIN exchanges
    BY <1>2, KeepMessage DEF store_message
  <2>2. queues' = [q \in DOMAIN queues |->
                      IF q \in BoundTo(e)
                      THEN [queues[q] EXCEPT !.messages = Append(@, m)]
                      ELSE queues[q]]
    BY <1>2 DEF store_message
  <2>3. ASSUME NEW q \in DOMAIN queues
        PROVE  /\ queues'[q] \in Queue
               /\ queues'[q].consumers = queues[q].consumers
    <3>1. queues[q] \in Queue /\ queues[q].messages \in Seq(Messages)
      BY DEF BrokerInv, BrokerTypeOK, IsDict, Queue
    <3> DEFINE s == Append(queues[q].messages, m)
    <3>2. s \in Seq(Messages)
      BY <3>1, AppendProperties
    <3>3. queues'[q] = [queues[q] EXCEPT !.messages = s] \/ queues'[q] = queues[q]
      BY <2>2
    <3> HIDE DEF s
    <3> QED BY <3>1, <3>2, <3>3 DEF Queue
  <2>4. IsDict(queues', Queues, Queue) /\ DOMAIN queues' = DOMAIN queues
    BY <2>2, <2>3 DEF IsDict, BrokerInv, BrokerTypeOK
  <2> QED BY <1>2, <2>1, <2>3, <2>4 DEF store_message, BrokerInv, BrokerTypeOK,
             BindingsResolve, DefaultBinding, PushedTagIsIssued, BoundTo, settled, outputs
<1> QED BY <1>1, <1>2

\* A publication of the test (state.py:227-287): the queue it serves exists.
LEMMA PublishStep ==
    ASSUME BrokerInv, NEW e \in Exchanges, NEW m \in Messages, NEW t \in DeliveryTags,
           publish_message(e, m, t), closing' \subseteq Conns
    PROVE  BrokerInv'
<1>1. CASE e \notin DOMAIN exchanges
  BY <1>1 DEF publish_message, BrokerInv, BrokerTypeOK, BindingsResolve,
         DefaultBinding, PushedTagIsIssued, BoundTo, settled, outputs
<1>2. CASE e \in DOMAIN exchanges
  <2>1. IsDict(exchanges', Exchanges, Exchange) /\ DOMAIN exchanges' = DOMAIN exchanges
    BY <1>2, KeepMessage DEF publish_message
  <2>2. CASE UNCHANGED <<queues, outputs>>
    BY <1>2, <2>1, <2>2 DEF publish_message, BrokerInv, BrokerTypeOK,
       BindingsResolve, DefaultBinding, PushedTagIsIssued, BoundTo, settled, outputs
  <2>3. ASSUME NEW q \in BoundTo(e), Offer(q, queues[q].messages, m, t)
        PROVE  BrokerInv'
    <3>1. q \in DOMAIN queues
      BY DEF BoundTo, BrokerInv, BindingsResolve
    <3>2. queues[q].messages \in Seq(Messages)
      BY <3>1 DEF BrokerInv, BrokerTypeOK, IsDict, Queue
    <3>3. /\ IsDict(queues', Queues, Queue)
          /\ DOMAIN queues' = DOMAIN queues
          /\ \A x \in DOMAIN queues' : UniqueTags(queues'[x].consumers)
          /\ pushed' \subseteq Push
          /\ issued' \subseteq Issue
          /\ PushedTagIsIssued'
      BY <2>3, <3>1, <3>2, OfferKeeps DEF BrokerInv
    <3> QED BY <1>2, <2>1, <3>3 DEF publish_message, BrokerInv, BrokerTypeOK,
               BindingsResolve, DefaultBinding, BoundTo, settled
  <2> QED BY <1>2, <2>2, <2>3 DEF publish_message
<1> QED BY <1>1, <1>2

\* The same for a publication in one queue (state.py:289-341).
LEMMA PublishInQueueStep ==
    ASSUME BrokerInv, NEW q \in Queues, NEW m \in Messages, NEW t \in DeliveryTags,
           publish_message_in_queue(q, m, t), closing' \subseteq Conns
    PROVE  BrokerInv'
<1>1. CASE q \notin DOMAIN queues
  BY <1>1 DEF publish_message_in_queue, BrokerInv, BrokerTypeOK, BindingsResolve,
         DefaultBinding, PushedTagIsIssued, BoundTo, settled, outputs
<1>2. CASE q \in DOMAIN queues
  <2> DEFINE s == Append(queues[q].messages, m)
  <2>1. queues[q].messages \in Seq(Messages)
    BY <1>2 DEF BrokerInv, BrokerTypeOK, IsDict, Queue
  <2>2. s \in Seq(Messages)
    BY <2>1, AppendProperties
  <2>3. Offer(q, s, m, t)
    BY <1>2 DEF publish_message_in_queue
  <2> HIDE DEF s
  <2>4. /\ IsDict(queues', Queues, Queue)
        /\ DOMAIN queues' = DOMAIN queues
        /\ \A x \in DOMAIN queues' : UniqueTags(queues'[x].consumers)
        /\ pushed' \subseteq Push
        /\ issued' \subseteq Issue
        /\ PushedTagIsIssued'
    BY <1>2, <2>2, <2>3, OfferKeeps DEF BrokerInv
  <2> QED BY <2>4 DEF publish_message_in_queue, BrokerInv, BrokerTypeOK,
             BindingsResolve, DefaultBinding, BoundTo, settled
<1> QED BY <1>1, <1>2

\* Settlements (state.py:343-350) only add tags.
LEMMA SettleStep ==
    ASSUME BrokerInv, NEW t \in DeliveryTags, closing' \subseteq Conns,
           message_ack(t) \/ \E requeue \in BOOLEAN : message_nack(t, requeue)
    PROVE  BrokerInv'
BY DEF message_ack, message_nack, BrokerInv, BrokerTypeOK, BindingsResolve,
       DefaultBinding, PushedTagIsIssued, BoundTo, routing, outputs

\* Every operation, with the transports closing or not, keeps the invariant.
LEMMA OperationInv ==
    ASSUME BrokerInv, Operation, closing' \subseteq Conns PROVE BrokerInv'
<1>1. CASE reset
  BY <1>1, ResetStep
<1>2. CASE \E u \in Users, p \in Passwords : check_credentials(u, p)
  BY <1>2, CredentialsStep
<1>3. CASE \E e \in Exchanges, t \in Types : declare_exchange(e, t)
  BY <1>3, DeclareExchangeStep
<1>4. CASE \E q \in Queues : declare_queue(q)
  BY <1>4, DeclareQueueStep
<1>5. CASE \E q \in Queues, e \in Exchanges : bind_queue(q, e)
  BY <1>5, BindQueueStep
<1>6. CASE \E c \in Conns, ct \in ConsumerTags, q \in Queues, ch \in Channels :
               register_consumer(c, ct, q, ch)
  BY <1>6, RegisterStep
<1>7. CASE \/ \E q \in Queues : delete_messages_of_queue(q)
           \/ \E e \in Exchanges : delete_messages_of_exchange(e)
  BY <1>7, DeleteStep
<1>8. CASE \E e \in Exchanges, m \in Messages : store_message(e, m)
  BY <1>8, StoreStep
<1>9. CASE \E e \in Exchanges, m \in Messages, t \in DeliveryTags : publish_message(e, m, t)
  BY <1>9, PublishStep
<1>10. CASE \E q \in Queues, m \in Messages, t \in DeliveryTags :
                publish_message_in_queue(q, m, t)
  BY <1>10, PublishInQueueStep
<1>11. CASE \E t \in DeliveryTags :
                message_ack(t) \/ \E requeue \in BOOLEAN : message_nack(t, requeue)
  BY <1>11, SettleStep
<1> QED BY <1>1, <1>2, <1>3, <1>4, <1>5, <1>6, <1>7, <1>8, <1>9, <1>10, <1>11 DEF Operation

\* A step that leaves the tables alone, whatever transports close.
LEMMA StutterInv ==
    ASSUME BrokerInv, UNCHANGED tables, closing' \subseteq Conns PROVE BrokerInv'
BY DEF tables, routing, settled, outputs, BrokerInv, BrokerTypeOK, BindingsResolve,
       DefaultBinding, PushedTagIsIssued, BoundTo

\* The inductive step, for every operation, hang-up and stutter.
LEMMA NextInv == BrokerInv /\ [BrokerNext]_brokerVars => BrokerInv'
<1> SUFFICES ASSUME BrokerInv, [BrokerNext]_brokerVars PROVE BrokerInv'
  OBVIOUS
<1>0. closing \subseteq Conns
  BY DEF BrokerInv, BrokerTypeOK
<1>1. CASE Operation /\ UNCHANGED closing
  BY <1>0, <1>1, OperationInv
<1>2. ASSUME NEW c \in Conns, Hangup(c) PROVE BrokerInv'
  <2>1. closing' \subseteq Conns
    BY <1>0, <1>2 DEF Hangup
  <2>2. CASE UNCHANGED tables
    BY <2>1, <2>2, StutterInv
  <2>3. CASE \E u \in Users, p \in Passwords : check_credentials(u, p)
    BY <2>1, <2>3, CredentialsStep
  <2> QED BY <1>2, <2>2, <2>3 DEF Hangup
<1>3. CASE UNCHANGED brokerVars
  BY <1>0, <1>3, StutterInv DEF brokerVars
<1> QED BY <1>1, <1>2, <1>3 DEF BrokerNext

-----------------------------------------------------------------------------
(* The theorems *)

\* BrokerInv holds in every reachable state, for all values of the constants.
THEOREM BrokerInvariant == BrokerSpec => []BrokerInv
BY InitInv, NextInv, PTL DEF BrokerSpec

\* The tables hold what the methods of State assume (state.py:17-52), and a
\* consumer tag occurs once in a queue.
THEOREM BrokerTypeCorrect == BrokerSpec => []BrokerTypeOK
BY BrokerInvariant, PTL DEF BrokerInv

\* No flush or declaration order makes a routing loop look up a name that is gone
\* (state.py:203, 252).
THEOREM BindingsAlwaysResolve == BrokerSpec => []BindingsResolve
BY BrokerInvariant, PTL DEF BrokerInv

\* The default exchange always reaches every queue (state.py:104-106).
THEOREM DefaultAlwaysBound == BrokerSpec => []DefaultBinding
BY BrokerInvariant, PTL DEF BrokerInv

\* A delivery written to a worker has its tag answered to the publisher
\* (state.py:257, 287, 341).
THEOREM PushedAlwaysIssued == BrokerSpec => []PushedTagIsIssued
BY BrokerInvariant, PTL DEF BrokerInv

-----------------------------------------------------------------------------
(* What a publication may do to the consumers *)

\* One turn of the loop over the consumers: who is sent the message, who is left.
LEMMA OfferReceivesAndKeeps ==
    ASSUME BrokerInv, NEW q \in DOMAIN queues, NEW kept, NEW m, NEW t, Offer(q, kept, m, t)
    PROVE  /\ \A p \in pushed' \ pushed :
                 /\ p.conn \notin closing
                 /\ [tag |-> p.ctag, conn |-> p.conn, chan |-> p.chan] \in
                        Elements(queues[q].consumers)
                 /\ \A p2 \in pushed' \ pushed : p2 = p
           /\ DOMAIN queues' = DOMAIN queues
           /\ \A x \in DOMAIN queues : x # q => queues'[x] = queues[x]
           /\ \A k \in Elements(queues[q].consumers) :
                 k.conn \notin closing => k \in Elements(queues'[q].consumers)
<1> DEFINE s == queues[q].consumers
<1>1. PICK dead \in 0 .. Len(s) :
          /\ Met(s, dead)
          /\ IF m \in Unsendable /\ dead < Len(s)
             THEN /\ queues' = [queues EXCEPT ![q].messages = kept]
                  /\ UNCHANGED outputs
             ELSE /\ queues' = [queues EXCEPT ![q] =
                                   [messages  |-> kept,
                                    consumers |-> Survivors(s, dead)]]
                  /\ pushed' = pushed \cup
                        {[conn |-> s[i].conn, chan |-> s[i].chan, ctag |-> s[i].tag,
                          dtag |-> t, msg |-> m] : i \in Receivers(s, dead)}
                  /\ issued' = issued \cup
                        {[dtag |-> t, msg |-> m] : i \in Visited(s, dead)}
  BY DEF Offer
<1>2. queues[q] \in Queue /\ s \in Seq(Consumer) /\ UniqueTags(s)
  BY DEF BrokerInv, BrokerTypeOK, IsDict, Queue
<1>3. Len(s) \in Nat /\ DOMAIN s = 1 .. Len(s)
  BY <1>2
<1>4. \A i \in DOMAIN s : s[i] \in Consumer
  BY <1>2, ElementOfSeq
<1>5. queues[q].consumers = s
  OBVIOUS
<1> HIDE DEF s
<1>6. CASE m \in Unsendable /\ dead < Len(s)
  <2>1. queues' = [queues EXCEPT ![q].messages = kept] /\ UNCHANGED <<pushed, issued>>
    BY <1>1, <1>6 DEF outputs
  <2>2. queues'[q].consumers = s
    BY <1>2, <1>5, <2>1 DEF Queue
  <2> QED BY <1>5, <2>1, <2>2
<1>7. CASE ~ (m \in Unsendable /\ dead < Len(s))
  <2> DEFINE P == {[conn |-> s[i].conn, chan |-> s[i].chan, ctag |-> s[i].tag,
                    dtag |-> t, msg |-> m] : i \in Receivers(s, dead)}
  <2>1. /\ queues' = [queues EXCEPT ![q] =
                         [messages |-> kept, consumers |-> Survivors(s, dead)]]
        /\ pushed' = pushed \cup P
    BY <1>1, <1>7
  <2>2. ASSUME NEW p \in P
        PROVE  /\ p.conn \notin closing
               /\ [tag |-> p.ctag, conn |-> p.conn, chan |-> p.chan] \in Elements(s)
               /\ \A p2 \in P : p2 = p
    <3>1. dead + 1 \in DOMAIN s /\ s[dead + 1].conn \notin closing
      <4>1. dead + 1 \in DOMAIN s
        BY DEF Receivers
      <4>2. dead < Len(s)
        BY <1>3, <4>1
      <4> QED BY <1>1, <4>1, <4>2 DEF Met
    <3>2. p = [conn |-> s[dead + 1].conn, chan |-> s[dead + 1].chan,
               ctag |-> s[dead + 1].tag, dtag |-> t, msg |-> m]
      BY DEF Receivers
    <3>3. [tag |-> p.ctag, conn |-> p.conn, chan |-> p.chan] = s[dead + 1]
      BY <1>4, <3>1, <3>2 DEF Consumer
    <3>4. \A p2 \in P : p2 = p
      BY <3>2 DEF Receivers
    <3> QED BY <3>1, <3>2, <3>3, <3>4 DEF Elements
  <2>3. queues'[q].consumers = Survivors(s, dead)
    BY <2>1
  <2>4. ASSUME NEW k \in Elements(s), k.conn \notin closing
        PROVE  k \in Elements(Survivors(s, dead))
    <3>1. PICK i \in DOMAIN s : k = s[i]
      BY DEF Elements
    <3>2. i > dead
      BY <1>1, <1>3, <2>4, <3>1 DEF Met
    <3> QED BY <1>2, <3>1, <3>2, SurvivingConsumers
  <2> HIDE DEF P
  <2> QED BY <1>5, <2>1, <2>2, <2>3, <2>4
<1> QED BY <1>6, <1>7

\* "a message is only sent to one consumer per queue" (state.py:277, 333), to a
\* registered one whose transport is not closing.
THEOREM OneLiveReceiverAlways == BrokerSpec => OneLiveReceiver
<1> DEFINE A == \A p \in pushed' \ pushed :
                   /\ p.conn \notin closing
                   /\ \E q \in DOMAIN queues : [tag |-> p.ctag, conn |-> p.conn,
                                                chan |-> p.chan] \in
                                               Elements(queues[q].consumers)
                   /\ \A p2 \in pushed' \ pushed : p2 = p
<1>1. BrokerInv /\ [BrokerNext]_brokerVars => [A]_brokerVars
  <2> SUFFICES ASSUME BrokerInv, BrokerNext PROVE A
    BY DEF brokerVars
  <2>1. ASSUME NEW q \in Queues, NEW kept, NEW m, NEW t, q \in DOMAIN queues,
               Offer(q, kept, m, t)
        PROVE  A
    BY <2>1, OfferReceivesAndKeeps
  <2>2. CASE pushed' = pushed
    BY <2>2
  <2>3. ASSUME NEW e \in Exchanges, NEW m \in Messages, NEW t \in DeliveryTags,
               publish_message(e, m, t)
        PROVE  A
    <3>1. ASSUME NEW q \in BoundTo(e), Offer(q, queues[q].messages, m, t) PROVE A
      <4>1. q \in DOMAIN queues /\ q \in Queues
        BY DEF BoundTo, BrokerInv, BindingsResolve, BrokerTypeOK, IsDict
      <4> QED BY <2>1, <3>1, <4>1
    <3>2. CASE UNCHANGED <<queues, outputs>>
      BY <3>2 DEF outputs
    <3> QED BY <2>3, <3>1, <3>2 DEF publish_message
  <2>4. ASSUME NEW q \in Queues, NEW m \in Messages, NEW t \in DeliveryTags,
               publish_message_in_queue(q, m, t)
        PROVE  A
    <3>1. CASE q \in DOMAIN queues
      BY <2>1, <2>4, <3>1 DEF publish_message_in_queue
    <3>2. CASE q \notin DOMAIN queues
      BY <2>4, <3>2 DEF publish_message_in_queue, outputs
    <3> QED BY <3>1, <3>2
  <2> HIDE DEF A
  <2>5. ASSUME NEW c \in Conns, Hangup(c) PROVE A
    <3>1. pushed' = pushed
      BY <2>5 DEF Hangup, check_credentials, tables, outputs
    <3> QED BY <2>2, <3>1
  <2>6. CASE Operation
    <3>1. CASE reset
      BY <2>2, <3>1 DEF reset, outputs
    <3>2. CASE \E u \in Users, p \in Passwords : check_credentials(u, p)
      BY <2>2, <3>2 DEF check_credentials, outputs
    <3>3. CASE \/ \E e \in Exchanges, t \in Types : declare_exchange(e, t)
               \/ \E q \in Queues : declare_queue(q)
               \/ \E q \in Queues, e \in Exchanges : bind_queue(q, e)
      BY <2>2, <3>3 DEF declare_exchange, declare_queue, bind_queue, outputs
    <3>4. CASE \E c \in Conns, ct \in ConsumerTags, q \in Queues, ch \in Channels :
                   register_consumer(c, ct, q, ch)
      BY <2>2, <3>4 DEF register_consumer, outputs
    <3>5. CASE \/ \E q \in Queues : delete_messages_of_queue(q)
               \/ \E e \in Exchanges : delete_messages_of_exchange(e)
               \/ \E e \in Exchanges, m \in Messages : store_message(e, m)
      BY <2>2, <3>5 DEF delete_messages_of_queue, delete_messages_of_exchange,
                        store_message, outputs
    <3>6. CASE \/ \E t \in DeliveryTags : message_ack(t)
               \/ \E t \in DeliveryTags, requeue \in BOOLEAN : message_nack(t, requeue)
      BY <2>2, <3>6 DEF message_ack, message_nack, outputs
    <3> QED BY <2>3, <2>4, <2>6, <3>1, <3>2, <3>3, <3>4, <3>5, <3>6 DEF Operation
  <2> QED BY <2>5, <2>6 DEF BrokerNext
<1> QED BY <1>1, BrokerInvariant, PTL DEF BrokerSpec, OneLiveReceiver

\* The cleaning of dead consumers (state.py:280-283, 336-339) never loses a live
\* one: only a flush or a registration under the same tag takes its place.
THEOREM LiveConsumersKeptAlways == BrokerSpec => LiveConsumersKept
<1> DEFINE Kept(q, k) == \/ queues' = EmptyDict
                         \/ /\ q \in DOMAIN queues'
                            /\ \E k2 \in Elements(queues'[q].consumers) :
                                   /\ k2.tag = k.tag
                                   /\ k2 # k => UNCHANGED outputs
           A == \A q \in DOMAIN queues : \A k \in Elements(queues[q].consumers) :
                    k.conn \notin closing => Kept(q, k)
<1>1. BrokerInv /\ [BrokerNext]_brokerVars => [A]_brokerVars
  <2> SUFFICES ASSUME BrokerInv, BrokerNext PROVE A
    BY DEF brokerVars
  <2>1. CASE /\ DOMAIN queues \subseteq DOMAIN queues'
             /\ \A q \in DOMAIN queues : queues'[q].consumers = queues[q].consumers
    BY <2>1
  <2>2. CASE queues' = EmptyDict
    BY <2>2
  <2>3. ASSUME NEW q \in DOMAIN queues, NEW kept, NEW m, NEW t, Offer(q, kept, m, t)
        PROVE  A
    <3>1. /\ DOMAIN queues' = DOMAIN queues
          /\ \A x \in DOMAIN queues : x # q => queues'[x] = queues[x]
          /\ \A k \in Elements(queues[q].consumers) :
                k.conn \notin closing => k \in Elements(queues'[q].consumers)
      BY <2>3, OfferReceivesAndKeeps
    <3> QED BY <3>1
  <2>4. ASSUME NEW c \in Conns, NEW ct \in ConsumerTags, NEW q \in Queues,
               NEW ch \in Channels, register_consumer(c, ct, q, ch), q \in DOMAIN queues
        PROVE  A
    <3> DEFINE new == [tag |-> ct, conn |-> c, chan |-> ch]
               s == queues[q].consumers
    <3>1. queues[q] \in Queue /\ s \in Seq(Consumer) /\ UniqueTags(s)
      BY <2>4 DEF BrokerInv, BrokerTypeOK, IsDict, Queue
    <3>2. new \in Consumer
      BY DEF Consumer
    <3>3. \A x \in Elements(s) : \E y \in Elements(Enter(s, new)) : y.tag = x.tag
      BY <3>1, <3>2, EnterConsumer
    <3>4. /\ DOMAIN queues' = DOMAIN queues
          /\ \A x \in DOMAIN queues : x # q => queues'[x] = queues[x]
          /\ queues'[q].consumers = Enter(s, new)
          /\ UNCHANGED outputs
      <4>1. queues' = [queues EXCEPT ![q].consumers = Enter(s, new)] /\ UNCHANGED outputs
        BY <2>4 DEF register_consumer
      <4> HIDE DEF new, s
      <4>2. queues'[q].consumers = Enter(s, new)
        BY <2>4, <3>1, <4>1 DEF Queue
      <4> QED BY <4>1, <4>2
    <3> QED BY <3>3, <3>4
  <2>5. ASSUME NEW e \in Exchanges, NEW m \in Messages, NEW t \in DeliveryTags,
               publish_message(e, m, t)
        PROVE  A
    <3>1. ASSUME NEW q \in BoundTo(e), Offer(q, queues[q].messages, m, t) PROVE A
      <4>1. q \in DOMAIN queues
        BY DEF BoundTo, BrokerInv, BindingsResolve
      <4> QED BY <2>3, <3>1, <4>1
    <3>2. CASE UNCHANGED <<queues, outputs>>
      BY <2>1, <3>2
    <3> QED BY <2>5, <3>1, <3>2 DEF publish_message
  <2>6. ASSUME NEW q \in Queues, NEW m \in Messages, NEW t \in DeliveryTags,
               publish_message_in_queue(q, m, t)
        PROVE  A
    BY <2>1, <2>3, <2>6 DEF publish_message_in_queue
  <2>7. ASSUME NEW q \in Queues, declare_queue(q) PROVE A
    <3>1. CASE q \in DOMAIN queues
      BY <2>1, <2>7, <3>1 DEF declare_queue
    <3>2. CASE q \notin DOMAIN queues
      BY <2>1, <2>7, <3>2 DEF declare_queue, Put
    <3> QED BY <3>1, <3>2
  <2>8. ASSUME NEW e \in Exchanges, NEW m \in Messages, store_message(e, m) PROVE A
    <3>0. \A q \in DOMAIN queues : queues[q] \in Queue
      BY DEF BrokerInv, BrokerTypeOK, IsDict
    <3>1. CASE e \notin DOMAIN exchanges
      BY <2>1, <2>8, <3>1 DEF store_message
    <3>2. CASE e \in DOMAIN exchanges
      BY <2>1, <2>8, <3>0, <3>2 DEF store_message, Queue
    <3> QED BY <3>1, <3>2
  <2>9. ASSUME NEW q \in Queues, delete_messages_of_queue(q) PROVE A
    <3>0. \A x \in DOMAIN queues : queues[x] \in Queue
      BY DEF BrokerInv, BrokerTypeOK, IsDict
    <3> QED BY <2>1, <2>9, <3>0 DEF delete_messages_of_queue, Queue
  <2>10. ASSUME NEW c \in Conns, Hangup(c) PROVE A
    <3>1. queues' = queues
      BY <2>10 DEF Hangup, check_credentials, tables, routing
    <3> QED BY <2>1, <3>1
  <2> HIDE DEF A
  <2>11. CASE Operation
    <3>1. CASE reset
      BY <2>2, <3>1 DEF reset
    <3>2. CASE \/ \E u \in Users, p \in Passwords : check_credentials(u, p)
               \/ \E e \in Exchanges, t \in Types : declare_exchange(e, t)
               \/ \E q \in Queues, e \in Exchanges : bind_queue(q, e)
               \/ \E e \in Exchanges : delete_messages_of_exchange(e)
               \/ \E t \in DeliveryTags : message_ack(t)
               \/ \E t \in DeliveryTags, requeue \in BOOLEAN : message_nack(t, requeue)
      BY <2>1, <3>2 DEF check_credentials, declare_exchange, bind_queue, routing,
                        delete_messages_of_exchange, message_ack, message_nack
    <3>3. CASE \E c \in Conns, ct \in ConsumerTags, q \in Queues, ch \in Channels :
                   register_consumer(c, ct, q, ch)
      <4>1. PICK c \in Conns, ct \in ConsumerTags, q \in Queues, ch \in Channels :
                register_consumer(c, ct, q, ch)
        BY <3>3
      <4>2. CASE q \notin DOMAIN queues
        BY <2>1, <4>1, <4>2 DEF register_consumer
      <4> QED BY <2>4, <4>1, <4>2
    <3> QED BY <2>5, <2>6, <2>7, <2>8, <2>9, <2>11, <3>1, <3>2, <3>3 DEF Operation
  <2> QED BY <2>10, <2>11 DEF BrokerNext
<1> QED BY <1>1, BrokerInvariant, PTL DEF BrokerSpec, LiveConsumersKept
=============================================================================
