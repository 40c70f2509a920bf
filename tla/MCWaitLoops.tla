---------------------------- MODULE MCWaitLoops ----------------------------
(* Concurrent waits over the broker tables, on a small instance. *)
EXTENDS WaitLoops, TLC

\* No message is published here, so every table is finite without a bound.
MCSpec == WaitSpec /\ WaitFairness

MCTargets ==
    [on : {"acknowledged", "not_acknowledged", "requeued"}, dtag : DeliveryTags]
    \cup [on : {"authentication"}, user : Users]
    \cup [on : {"queue_bound"}, queue : Queues, exchange : Exchanges \ {DefaultExchange}]
=============================================================================
