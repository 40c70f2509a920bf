--------------------------- MODULE MCBrokerState ---------------------------
(* The broker tables under every order of calls, on a small instance. *)
EXTENDS BrokerState, FiniteSetsExt, TLC

CONSTANTS MaxEntries, MaxConsumers, MaxIssued

Total(f) == MapThenSumSet(LAMBDA x : Len(f[x]), DOMAIN f)

\* Bounds: entries of the logs (copies of messages kept in all the deques,
\* settlements and authentication attempts), consumers registered, and
\* (tag, message) pairs returned to publishers.
WithinBounds ==
    /\ Total([e \in DOMAIN exchanges |-> exchanges[e].messages])
       + Total([q \in DOMAIN queues |-> queues[q].messages])
       + Cardinality(message_acknowledged) + Cardinality(message_not_acknowledged)
       + Cardinality(message_requeued) + Cardinality(DOMAIN authentication_tried_on)
       <= MaxEntries
    /\ Total([q \in DOMAIN queues |-> queues[q].consumers]) <= MaxConsumers
    /\ Cardinality(issued) <= MaxIssued

MCNext == BrokerNext /\ WithinBounds'
MCSpec == BrokerInit /\ [][MCNext]_brokerVars

Symmetry == Permutations(Conns) \cup Permutations(ConsumerTags) \cup Permutations(Queues)
=============================================================================
