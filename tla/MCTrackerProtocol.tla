------------------------- MODULE MCTrackerProtocol -------------------------
(* AMQP connections over the broker tables, on small instances: each .cfg    *)
(* chooses the frames the clients send and the operations of the HTTP side.  *)
EXTENDS TrackerProtocol, FiniteSetsExt, TLC

CONSTANTS MaxEntries,   \* entries of the broker's logs
          MaxIssued,    \* (tag, message) pairs returned to publishers
          UnitSize      \* number of body frames of every message

Total(f) == MapThenSumSet(LAMBDA x : Len(f[x]), DOMAIN f)

WithinBounds ==
    /\ Total([e \in DOMAIN exchanges |-> exchanges[e].messages])
       + Total([q \in DOMAIN queues |-> queues[q].messages]) <= MaxEntries
    /\ Cardinality(issued) <= MaxIssued

\* The bounds stop the HTTP side only, which acts between two callbacks: no step
\* of a handler is ever held back.
MCNext == Next /\ ((running = Idle /\ tables' # tables) => WithinBounds')
MCSpec == Init /\ [][MCNext]_vars
MCFairSpec == MCSpec /\ Fairness

MCBodySize == [m \in Messages |-> UnitSize]

Opens == [method : {"CHANNEL_OPEN"}, chan : Channels]
Closes == [method : {"CHANNEL_CLOSE"}, chan : Channels]

\* Workers: channels come and go and consume; the HTTP side declares the queues.
WorkerRequests ==
    {ProtocolHeader} \cup Opens \cup Closes
    \cup [method : {"BASIC_CONSUME"}, chan : Channels, queue : Queues, tag : ConsumerTags]

\* Publishers: channels are opened, content follows on several of them at once.
PublisherRequests == {ProtocolHeader} \cup Opens

\* The handshake in any order and number of frames, and a consumer of channel 1.
HandshakeRequests ==
    ConnectionFrame \cup Opens \cup {f \in WorkerRequests : f.chan = 1}

\* The settlements and declarations of an opened channel.
MethodRequests ==
    {ProtocolHeader} \cup Opens
    \cup (ChannelFrame \ [method : {"CHANNEL_OPEN", "CHANNEL_CLOSE"}, chan : Channels])

Symmetry == Permutations(Conns)
=============================================================================
