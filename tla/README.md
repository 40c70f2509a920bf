# mock-amqp-server in TLA+

mock-amqp-server is one asyncio process.  A worker under test connects to its
AMQP port; the test connects to its HTTP port, publishes messages for the worker
and waits until the worker has settled them.  This directory specifies that
program, model-checks it with TLC and proves its main invariants with TLAPS.

Source paths are relative to `src/service/`.

## The system

| Component | State | Operations | Module |
|---|---|---|---|
| `State` (`state.py`) | exchanges, queues with their consumers and messages, bindings, last authentication outcome per user, three sets of settled tags | `reset`, `declare_*`, `bind_queue`, `register_consumer`, `store_message`, `publish_message*`, `delete_messages_*`, `message_ack`, `message_nack`, `check_credentials` | `BrokerState` |
| Waiting coroutines (`state.py:352-401`, `http_protocol.py:_on_get`, `_on_get_done`) | per GET: what it waits for, the turns done, the answer | `Get`, `Poll` | `WaitLoops` |
| `TrackerProtocol` (`protocol.py`), `Message` (`message.py`) | per connection: handshake state, byte buffer, channels with their message under assembly | `data_received` and one action per kind of frame, `connection_lost` | `TrackerProtocol` |
| `HTTPProtocol` (`http_protocol.py`) | per connection: h11 parser, request state, method and target | `data_received` and one action per event of the parser, `_on_get`, `_on_post`, `_on_delete`, `_on_put`, `_on_get_done` | `HTTPProtocol` |
| Frame reader and method decoder (`frame.py`, `heartbeat.py`, `method.py`) | the buffer of a connection | `read_frame`, the decoders | `FrameReader`, composed in `Wire` |
| `Sender` (`sender.py`) | the bytes written | `send_*` | `Sender`, composed in `Wire` |
| Serialization (`serialization.py`) | none | `loads`, `dumps`, tables and arrays | `Serialization`, under the two above |
| Start-up (`__main__.py`) | none | opens two servers | not modelled |

How they interact.  All connections share one `State` by plain method calls.  A
delivery is the reverse call: `State.publish_message*`, run on behalf of an HTTP
request, calls `push_message` of the `TrackerProtocol` that registered the
consumer, possibly long after that connection has closed.  The waiting coroutines
read the same tables once a second.  Nothing is persisted; a restart is a new
process.

What is hard in it:

* Callbacks run to their end, but *between* two of them anything may happen: a
  consumer's transport closes, the state is flushed, a tag is settled.  The
  handlers rely on facts established in an earlier callback (a binding's queue
  exists, a consumer's channel is open, the exchange of a publication is there).
* `data_received` gets bytes in arbitrary segments and loops over the frames in
  them; some branches `continue`, others `return` or raise and leave frames in the
  buffer, and a closed transport is read no more.
* Content is spread over several frames, and several channels of a connection
  interleave theirs.
* Deliveries, cleaning of dead consumers and the tag returned to the test come
  out of one loop with a `break`.
* A flush or a refused login races with a wait that looks once a second.
* An HTTP body comes in any number of pieces, a wait may end after its connection
  was answered by an error or closed, and a handler may fail when it has answered.
* Two layouts of the same bytes, one for reading and one for writing, must agree
  with AMQP and with each other, to the last bit of a packed byte.

What makes each part correct:

* `State`: bindings name what exists; every queue is bound to the default
  exchange; a message goes to one live registered consumer, whose tag the
  publisher is given; cleaning loses no live consumer.
* Waiting coroutines: each request is answered once, for what it asked, and
  before a timeout when the event was there to be seen.
* `TrackerProtocol`: a handler is one operation of `State` or none; contents of
  different channels are never mixed; frames are not left unread, nor a channel
  waiting, without reason; deliveries go to opened channels.
* `HTTPProtocol`: each request is answered once, in the end, and the answer tells
  what was done; the loop over the parser's events ends.
* Frame reader, decoders, serialization: the handlers get the client's frames with
  the client's arguments, however the bytes were cut, unless a text in them is none;
  whole frames are not left in the buffer without reason.
* `Sender`: a client reads what the handlers meant to say.

`PROJECT.json` lists these hazards, each at its line, with the properties that
would catch it going wrong.

## The modules

### BrokerState

Each method of `State` is an action with the method's name.  A method runs
without interruption, so it is one step, its loops included.  A Python dict is a
function over its keys; the consumers of a queue, whose order decides who gets a
message, are a sequence of `[tag, conn, chan]` in which a tag occurs once
(`Enter`: assigning to a present key keeps its place).  A `set` is a set, and
the one routing loop that returns in its first iteration (`state.py:287`) may
serve any bound queue.

The loop over the consumers, written twice in the source (`state.py:254-283` and
`308-339`), is `Offer`.  It is cut where the code may go wrong: `Met` (the dead
prefix), `Receivers` (the one pushed to), `Survivors` (what is left in the dict),
`Visited` (whether any tag was drawn).  A message in `Unsendable` has a body or
headers that cannot be encoded: the push raises, after the deque has kept the
message and before anything is deleted or returned.

`closing` is the set of connections whose transport `is_closing()`.  `Hangup`
lets any transport close at any time, possibly just after a refused login, so
`BrokerSpec` is also the abstract specification of what the AMQP side may do to
the tables.  Two history variables record what leaves the process: `pushed` (a
delivery written to the end) and `issued` (a tag with its message, returned for the
publisher; whether HTTP still answers is up to `HTTPProtocol`: for the second piece of
a body it does not).  Delivery tags are drawn from a set and may collide, as
`randint(1, 2**31)` may.

### TrackerProtocol

Extends `BrokerState` with the connections.  An iteration of the loop of
`data_received` is one action; `running` is the connection whose loop is under
way, and while it is set only that loop steps, since no other callback runs.
`Continue` and `Return` are the two ways an iteration ends; `Raise` is an
exception, after which asyncio closes the transport (since Python 3.7) or not
(before): the Dockerfile pins no version, so both are allowed.

A frame is a record of what the handlers read of it.  `UNDECODABLE` stands for
bytes at which `read_frame` returns `None` with a complete frame present (unknown
type) or raises: they stay at the head of the buffer.  The size of a body is
counted in body frames (`BodySize`).

The clients are external: they send any of `Requests` in any order, in segments
cut anywhere between two frames, except that they greet with the protocol header
alone and keep the content of a publication contiguous on its channel, as AMQP
requires.  `pending` and `published` are the client's; `stored` is a history of
what `store_message` accepted.  `Backdoor` is the HTTP side, between two
callbacks.

### WaitLoops

Extends `BrokerState` with the five `wait_*` coroutines, which have the same
loop.  A turn up to its `await` is one action (`Poll`); between two turns any
operation of the broker and any other wait may run.  Time is abstract: a sleep
ends some time.  `Status` is `_on_get_done`.

### HTTPProtocol

Extends `WaitLoops` with the connections of the test, which are its waiters.  A
connection carries one request, since `start_next_cycle()` is never called.  An
iteration of the loop of `_data_received` is one action (`OnRequest`, `OnData`,
`OnEndOfMessage`, `OnNeedData`, `OnRemoteProtocolError`), `serving` is the connection
whose loop is under way, and a handler with all its calls of `State` belongs to
the action of its event.

h11 is a library, modelled by what the loop meets of it: `NextEvent`, the two states
of the parser, and its refusal of a second response (`Send`).  A request is a head,
`pieces` of a body and perhaps further bytes; the network hands them over in any
segments, and one Data event takes all that is there of the body.  A request may
propose another protocol (`switch`: the method CONNECT, or an `Upgrade:` header).  Read
to its end before a response was sent, it leaves the parser in `MIGHT_SWITCH_PROTOCOL`,
where `next_event` is PAUSED with no bytes behind it; a response settles the proposal.
`Fail` is the except branch of `data_received`, which answers 500 unless the parser
refuses that too.  While the parser is paused the loop goes round without changing
anything: no action is enabled then, and `LoopEnds` is about that.

A binary body is named by the pieces it was built from (`Slice`), so that a message
made of a part of a body is told from the whole.  `Readable` and `Textual` tell the
bodies that can be shown: those that are UTF-8 bytes and those that came as JSON.

### Wire, and the modules under it

`TrackerProtocol` starts from frames; `Wire` shows that it may.  It has the bytes of
one connection, from `connection.start` on: the client writes a frame, whichever and
whenever it likes, `data_received` gets any prefix of what is in flight, `Turn` takes a
frame off the buffer and does what its branch does, `Post` writes a delivery.

The loop has the ways out that the source has (`ended`): no frame to be found; a
`return`, behind a login or where the transport is closed; an exception, of a text
that does not decode, of a first frame that is no login (`method.properties['mechanism']`)
or whose PLAIN response has no three parts, of the number of a channel to open.  What
is behind stays in the buffer for the next segment.  asyncio reads a closing transport
no more (`data_received`) and may drop what is written to it (`Write`).  Left open is
what depends on the state of channels and tables: whether a login is accepted, whether
a frame of a channel is answered, passed over, or closes the connection.

* `Serialization`: `loads` and `dumps`, letter by letter, with packed bits, nested
  tables and arrays.  A str is the sequence of its bytes in UTF-8, `surrogatepass`
  included (`Str`); bytes that are not the form of one (`Utf8`) raise, which ends each
  loop they are met in (`UnicodeDecodeError`).  `Items[n]` are the values with tables and
  arrays nested n deep, up to the constant `MaxDepth`: Python's stack bounds the nesting
  in the code.  `Taken` says what `dumps` takes for each letter.
* `FrameReader`: `read_frame`, and the table of decoders of `method.py` as data: a
  format, and which of its values each property is.
* `Sender`: the bytes of every `send_*`.  Texts that nobody reads back are shortened.
* `AmqpClient`: the external client, which writes and reads by the layouts of AMQP.
  Its argument lists are written down from the protocol, apart from those of the
  decoders, so a decoder that disagrees is seen.  `Encodable` are the frames it can
  write: arguments that fit their formats, payloads whose length fits four bytes.
  The response of a login is the one argument of bytes: AMQPLAIN puts a table there,
  and `Readable` tells those that are text all the same.
* `FrameFifo`: what a connection promises to the handlers, a queue of frames.
  `FramesInOrder` is the refinement that takes the frames not found yet for the queue
  and those found for the delivered ones.

`WireAssumption` says what the constants stand for: frames are `Encodable`; a
response of AMQPLAIN is one of the `Logins`, packed; a delivery has the channel and
names of a frame, a tag that fits eight bytes, a body whose length fits four and the
header values that JSON or HTTP can give (`Given`, whether or not they can be packed),
of which the packed ones make a content header whose length fits four bytes.  Users and
passwords are strs of at most 255 bytes without NUL, which separates them in PLAIN,
and without lone surrogates, which `encode('utf-8')` refuses (`Credential`).

### MC modules, proofs

`MCBrokerState`, `MCTrackerProtocol`, `MCWaitLoops`, `MCHTTPProtocol` and `MCWire` give
bounds, requests and frames; `BrokerStateProofs`, `TrackerProtocolProofs`,
`ContentProofs`, `HTTPProtocolProofs`, `SerializationProofs`, `FramesProofs`,
`WireProofs` and `HeardProofs` hold the theorems.  The
operators named after one of the model with a suffix (`Offered_always`,
`Rest_with_end`, ...) are regressions: plausible mistakes in that definition, each of
which a property detects.

## The runs

| Run | What is asked | Instance |
|---|---|---|
| `broker` | do the tables stay consistent, and is each message pushed to one live registered consumer, under every order of calls and hang-ups? | 2 exchanges, 2 queues, 2 connections, 2 tags, 2 messages of which one cannot be encoded |
| `content` | are contents of interleaved channels put together right and stored in the end? | 1 connection, 2 channels, 2 publications of 2 body frames, exchange flushed and recreated at any time |
| `handshake` | where does the loop leave frames unread, which channels can open, and is the channel of every live consumer open? | all frames of channel 0, wrong mechanisms and credentials, undecodable bytes, channels 1 and 256, a consumer |
| `methods` | is every handler one operation of the broker or none (`BrokerSpec` as a property)? | every method of an opened channel beside the HTTP side |
| `waits` | is every wait answered, for its own target, and before the timeout when the event is there? | 2 waits, 2 turns, the five kinds |
| `http` | is each request answered once, truthfully and in the end, does the loop end, and does the server implement `WaitLoops`? | 2 connections: one makes any of 29 requests, with bodies in none, one or two pieces, bytes behind them or another protocol proposed; the other publishes in two pieces or waits |
| `wire` | do frames and arguments survive any cut, where are they left unread, and does the client hear what was said? | 35 frames that reach each format, width and boundary, alone or before a short one, cut anywhere; 8 openings of up to 4 frames; 5 deliveries |

The bounds (`MaxEntries`, `MaxConsumers`, `MaxIssued`: logged entries, consumers
registered, tags issued; `MaxInFlight`: frames of a connection sent and not
treated; `MaxPublished`) sit in the MC modules or in the clients' guards, never
inside a handler.  In `MCTrackerProtocol` they hold back only the HTTP side; a
handler that has started always ends.  Two queues with two tags are what the
consumer loop needs to have a dead entry before or after a live one, and two
exchanges are the default one and one that must be declared.  In `content` a
publication is four frames and three may be in flight, so a segment can hold the
end of one content and the start of another; two channels with two publications
cover each pair of positions.  Ten turns of a wait are the same loop as two.
`CHECK_DEADLOCK FALSE` is set everywhere since the bounds let clients stop and
a server with no client has nothing to do.

In `http` the bounds hold back the workers, who publish one message and leave one
entry; a handler of a request is never held back.  One connection is enough to
meet each path of the handlers, and the second what another request does between
two callbacks: its wait ends late, its body's second piece comes after the answer.
In `wire` a frame is cut at every byte; a second one behind it, a heartbeat or a
body, shows that reading goes on at the right place.  Openings come in
whole frames, any number in a segment: a handshake sent at once with a frame behind it, one with the wrong frame in
each state, one with frames behind a close.  Four frames (`MaxSent`) are the three of
the handshake and one behind it.  Users and passwords are of no, one, two and 128
bytes: from 128 on a length is no byte of a text.  Its tables are nested two deep
(`MaxDepth`), so that a table stands in one that stands in an argument.  Two workers on one queue are
in `broker`, and in the theorem `ConsumerChannelAlwaysOpen`.

Symmetry is used in `broker` only (connections, tags, queues), which checks no
liveness.

### Properties worth a word

* `LiveConsumersKept`: cleaning dead consumers never loses a live one.  It holds
  although entries are deleted by tag after the loop, because the dict does not
  change between the two.
* `ConsumerChannelOpen`: `basic.deliver` is written on
  `consumer['channel_number']` without looking at the connection's channels.
  This is safe only because closing *one* channel closes the whole transport
  (`protocol.py:235-240`), and because a delivery skips closing transports.
* `InStep` and `PublishedIsStored`: a channel waits for exactly the frame the
  client has to send next, and a publication sent to its last frame is stored
  unless the connection closes, also if its exchange disappeared on the way (the
  connection then closes).
* `NothingLeftUnread`: the only places where complete frames stay unread on an
  open connection are named.  One of them is an accepted START_OK: the handler
  returns, so a client that sends TUNE_OK in the same segment gets no further
  until it sends more bytes.
* `OneAnswer`: a body in several pieces, a late wait and the except branch each try
  to answer again; what saves the client is that the parser refuses.
* `AnswerTellsTruth`: a tag is answered only when it was issued for this body.  The
  reverse fails by design: `not found` is answered also when the message was kept,
  for a queue without consumer.  What is checked there is that nothing was pushed.
* `LoopEnds`: the loop knows one way out, NEED_DATA.  It is saved by the
  `Connection: close` of every response, which lets the parser drop further bytes
  instead of pausing, and settles an upgrade.  Before the response there is no such
  thing: bytes that come behind the request of a wait block the event loop for good,
  and so does a request that proposes another protocol and is not answered while it
  is read, a wait or a POST without a body.  `Overrun` is those two, and `LoopEnds` says
  that nothing else does; the mutant forgets that a response closes the connection.
* `RequestAnswered`: the requests no handler treats are named by `Treated`: a POST or
  PUT without a body gives no Data event.
* `FramesInOrder`: two arguments of `exchange.declare` are decoded one place too early
  (`method.py:213-214`) and left out of the comparison (`Unread`).
* `WholeFramesTaken`: an open connection whose loop has ended has no whole frame in its
  buffer, but for a list: behind a login (`protocol.py:139`); behind the exceptions
  above; and the frame itself that does not decode, which is tried again at each
  segment.  It is the byte-level companion of `NothingLeftUnread`, and like it names
  these places rather than ruling them out.
* `FramesArrive`: each frame sent comes in the end, unless the connection closes, or
  all its bytes have come and the loop that had them returned or raised.
* `LoginAsSent`: what is looked up is what the client sent, and a login fails to be read
  in one case only.  AMQPLAIN sends a table, and `loads` decodes it as text
  (`serialization.py:282`): a user or a password of 128 bytes or more has a length
  byte that no text has.
* `HeardAsSaid`: up to the first delivery with a header that cannot be packed, which
  leaves three bytes of a frame in the stream (`sender.py:498`): what was said so far
  is a prefix of what is heard then.
* `RecordedIsReported`: what is there while a turn is left is answered, or flushed
  before that turn; a wait does not use up its turns beside it.  Its mutant does not
  look in the last turn.
* `AnswerIsForTarget`: a success is true at the moment it is given, of the very tag,
  user or binding that was asked for: the queue is bound to that exchange, and both
  exist.

### Fairness

Liveness is checked under weak fairness of `data_received(c)` (the event loop
serves each readable socket), of the loop under way (a handler runs to its end)
and of `Poll(w)` and `PollAndAnswer(w)` (a sleep ends and its coroutine is resumed).
Clients and the test promise nothing.  In `Wire` a socket is readable as long as its
transport is not closing, as asyncio has it.  `WireFairness` states weak fairness of
`Turn` with the condition under which it is enabled written out.

### Disagreements with the texts

Each is a run with one property that fails:

* `dead_consumers`: the comment at `state.py:259` says dead connections are
  cleaned, "otherwise they will accumulate"; those behind a live consumer are not.
* `tag_without_push`: with dead consumers only, `publish_message*` returns a tag
  of a message that was sent to nobody.
* `empty_body`: completion is tested only when a body frame arrives; an empty
  message has none, is never stored, and its channel ignores every later method
  but `channel.close`.
* `split_body`: `_on_post` is called for each Data event, so a binary body that
  arrives in two segments is kept as two messages; README.md:85 offers
  `application/octet-stream` for sending binary data.
* `late_ack`: an ack recorded during the last sleep is answered by a timeout.

Met while modelling, and kept in the model without a run: a refused login overwrites
the success of a client still connected (`state.py:81`); `to_json` raises once a
queue exists, and the inspection of a queue raises on a JSON message or on bytes
that are not UTF-8 (`state.py:66`, `174`); `/create-exchange/$EXCHANGE_NAME` without a
type, as README.md:82 writes it, is answered 500 (the target `bad`); the header
`x-delay` of the example in README.md:103 is dropped (`Kept`).

## What is proved

Every theorem holds for all values of the constants that satisfy the named
assumptions: the default names are names, `Unsendable` are messages, channel
numbers are positive, the requests are frames of `method.py`, a timeout is at
least one turn, values are nested at least one deep, and `WireAssumption` above.

**BrokerStateProofs.**  `BrokerInvariant`: `BrokerSpec => []BrokerInv`, where
`BrokerInv` is the conjunction of `BrokerTypeOK`, `BindingsResolve`,
`DefaultBinding` and `PushedTagIsIssued`; the four follow as theorems of their
own, and `OneLiveReceiverAlways` and `LiveConsumersKeptAlways` are the action
properties, from the same invariant.

The conjunction is inductive where its parts are not.  `BindingsResolve` needs
the types; the routing actions need `BindingsResolve` to look up `queues[q]`
within its domain, and so to keep the types; `declare_queue` re-establishes
`DefaultBinding` because the default exchange exists, which is its other half;
`PushedTagIsIssued` needs the receiver to be among the entries visited.  There is
a lemma for each operation (`ResetStep`, ..., `SettleStep`), under
`closing' \subseteq Conns` only, joined in `OperationInv`; so they also serve
steps that close a transport on the way.  The consumer loop rests on lemmas about
its operators: `EnterConsumer` (tags stay unique, no entry is lost),
`SurvivingConsumers` (deleting a prefix keeps the rest), `OfferKeeps` and
`OfferReceivesAndKeeps`.

**TrackerProtocolProofs.**  `ServerImplementsBroker`: `Spec => BrokerSpec`.  A
handler is an operation of the broker only if its arguments are in the sets the
operation ranges over, so the refinement needs an invariant, `TrackerInv`: frames
in flight are frames, content frames and messages under assembly carry the number
of a publication that was made (so that the message `ContentBody` stores is one),
and a channel that waits for a body has a message.  `NextOK` shows in one pass,
action by action, that each step keeps this and is a step of the broker; with
`NextInv` the two invariants go together (`TrackerInvariant`), and
`ServerKeepsBroker` carries the broker's results over to the server.

`OpenChannelAlwaysFits` and `ConsumerChannelAlwaysOpen` come from two facts about
every step: `OpenedLife` (a channel is opened under a number that fits a byte and
ceases to be opened only with its transport) and `Registrations` (who is
registered was so before, or consumes on an opened channel of its own).  The
proof of the second theorem shows what it hangs on: without the
`transport.close()` in the treatment of `channel.close` it fails.

`NothingLeftUnreadAlways` is inductive beside `TrackerInv`: each turn of the loop goes
on, has emptied the buffer or closes (`Going`), or ended at one of the named returns
(`GivenUp`), and `TurnOfAnother` shows that what one connection does leaves the others
where they were.

**ContentProofs.**  `StoredAsPublishedAlways` and `InStepAlways`, from
`ContentInvariant`: `Spec => []ContentInv`.  Neither property is inductive: what
`ContentBody` stores is right only if the message under assembly holds exactly the
parts before the frame it takes, and that only if the frames of the channel were
sent, cut and read in order.  `ContentInv` therefore looks at all the frames of a
connection that are not treated yet, read or not, as one line (`Line`), and says

* how a frame follows the one before it on its channel (`LineFollows`),
* what the state of a channel requires of its first frame in the line, among it
  how many parts its message holds (`LinePrepared`),
* what the client still has to send behind the last (`LineContinued`, `PendingOK`),
* that publications come in their order (`LineOrdered`), that frames belong to the
  publication they name (`LineValid`), and what is stored (`StoredOK`).

The steps of the system do only three things to a line: a turn takes its first frame
(`LineTaken`, with `AdvancesTo` for the channel it moves), a client appends
one (`LineSent`), and a segment moves frames from `arriving` to `buffer`, which
leaves it as it is.  `Stuck` names the messages that will never be
stored: those refused with the connection, and those announced as empty.  The
second kind is why `InStepAlways` assumes that no body is empty: the run `empty_body`
shows that the code (`protocol.py:357`) does not keep it otherwise.

**HTTPProtocolProofs.**  Of the waits, `WaitTypeCorrect` (bounded turns, a timeout only
after all of them) and `AnswerAlwaysForTarget`, which needs `BindingsResolve`, from `BrokerInv`, to say of a
binding that its exchange and queue exist.
Of the requests, `HttpInvariant`: `HttpSpec => []HttpInv`.  Its part `RequestInv`
says that the body taken by the parser is a part of the request's, that a
connection being served has a request, and that the parser accepts a response
exactly as long as none was written.  From the last of these `OneAnswerAlways`
follows whatever a handler does, because each of them writes through `Send`; the
slices of a body are messages because of the first.  `HttpStep` goes through the
events once and shows that each is a step of the waits or leaves them alone, which
gives `HttpImplementsWaits`; `HttpAnswersForTarget` carries a result on the waits over
to the server.  `HttpTypeCorrect` adds the bytes of a request: those parsed, in the
parser's buffer, arriving and not yet sent make up the request in this order (`Kept`),
also while the parser waits for an upgrade to be settled.
`AnswerAlwaysTellsTruth` hangs on `OfferTells`: the handler decides about its answer by
the consumers it finds, and the loop over them decides about pushing, and the two
agree because both meet the same live consumer, or none; a tag is drawn for dead ones
too, which is why the theorem says issued and not pushed (`tag_without_push`).

**SerializationProofs.**  `UnpackPack` and `UnpackPackSigned`: `struct` packs and unpacks
integers of any width without loss, two's complement among them.  `ItemRoundTrip`: a
value of a table, nested to any depth, is read back from wherever it was written in a
buffer, and the offset behind it is where it ends.  The loops of `serialization.py` are
recursive functions in the model.  That such a function exists, and what it has after
each round, is shown by induction over a *set* of numbers (`SetInduction`, from the
well-foundedness of the naturals), which needs no operator as a parameter.  `At(buf, o,
w)`, the bytes w stand at o, is the one notion that connects writing to reading:
`AtConcat` splits it as `dumps` joins, and `Reads` says that a reader of items gives back
what stands at any offset.  `TableRead` and `ArrayRead` carry `Reads` from the items to
the tables of them, and `NestedRead` goes up the depth.  The loop that reads a table
ends at its size, so the entries before it must have used up exactly that many bytes:
that is where the lengths in `Reads` are needed.

**FramesProofs.**  `ArgumentsRoundTrip`: `loads` gives back the arguments that `dumps`
wrote, for every format that has no nine bits in a row.  Bits are the hard part: the byte of
a run of bits is completed after `dumps` went on, and taken off by `loads` before it is
used up.  `Stored` says what a buffer holds of an unfinished byte, as a remainder, and
`Follows` where `loads` then is, with a quotient; each letter keeps both (`BitTurn`,
`OtherTurn`).  With a ninth bit the two sides disagree on the byte, which no format of
AMQP meets (`EightBits`).  Where bytes stand that are no text, `loads` raises, and so
does what calls it (`Illegible`, and its counterpart `Readable` of a frame).  `HeaderRoundTrip`: the properties of a content header are
those that were given, because the masks of the table before a property are multiples
of twice its own and those behind it add up to less (`MaskInSum`).  `MethodRoundTrip`:
the tables of methods of both ends agree (`TablesAgree`, method by method), except
where `Unread` says.  `FrameRead` and `PartWaits`: a buffer that begins with a whole
frame gives that frame, with its size, whatever follows, or raises if it is a login
whose response is no text; one that ends within it gives none.

**WireProofs.**  `WireInvariant`: `WireSpec => []WireInv`.  `WireInv` says that the frames
found are the first ones sent, each as it was sent, and that the bytes in the buffer
and in the network are those of the others, laid end to end (`Coming`); the
second part is in `WireTypeOK`, which is not inductive without the first.  A turn of
the loop keeps it by the two theorems above: of the next frame the buffer holds a part
or the whole (`FirstFrame`), and `TurnFinds` says what the turn then does.
`TurnShape` says of all branches at once what they write and how they leave the loop
(`Writes`, `Leaves`), so that the ways out are gone through in one place.
`WireFifo` is the refinement, `FramesInOrder`.  `WireType` includes that everything written
is bytes, for which each `send_*` has a lemma; a delivery whose header raises is among
them.  `WireWhole` is inductive beside `WireInv`: a turn that goes on finds out at its
next start, one that finds no frame has none in its buffer, and the others are named.

`WireLogin` has two halves.  A START_OK that is found is found as it was sent, and both
ways of taking its response apart give the client's credentials (`LoginWhole`); the
response of PLAIN is text because the two names are.  One that is not found is
AMQPLAIN's: a byte below 128 is a character of its own, as the letters and the zero
bytes of the lengths are; behind those a last byte of a length is text only below 128
(`ShortLength`); and between the lengths stand the names, which are texts.  So the whole
is one exactly when both lengths are below 128 (`AmqplainText`).

**HeardProofs.**  `WireHeard`: `WireSpec => []HeardAsSaid`, the way back: a client that
cuts the stream of the server into frames and decodes them hears each confirmation
and each delivery with its values, in order.  `HeardInv` says of the whole stream what
`Says(e, frames)` says of some bytes: they are heard as the frames *whatever is written
behind them*.  Without the second half it would not be inductive, because `Heard`, a
recursive function over the bytes that are left, is known to give the same frames
for a stream and for its continuation only through it.  `HeardOne` takes the first
frame off the stream, `FrameSays` follows from it and from `FrameParts`, and `SaysThen`
adds up.  What is left is that each writer says what AMQP expects:

* `ReplyHeard`, method by method, by `ReplySays`: the number of a method finds its layout
  (`ServerNumbers`), `ArgumentsRoundTrip` its arguments, and the payload fits the four
  bytes of its length because its arguments are short (`ShortFits`, `PeerBrief`).
* `PostSays`: a content header of the sender is the one a client would write
  (`HeaderAsClient`), although the sender runs over the table of properties and skips
  those that are not there, or the test named others; so `HeaderRoundTrip` reads it.
* A header that cannot be packed leaves a broken frame.  From then on only `Starts`
  holds, what was said so far is a prefix of what is heard (`SaysStarts`, `StartsThen`),
  and `CutGrows` says that this place does not move.

## What is model-checked only

All liveness (`PublishedIsStored`, `EveryWaitAnswered`, `RecordedIsReported`,
`LoopEnds`, `RequestAnswered`, `FramesArrive`), out of the prover's reach.  `InStep` where
bodies may be empty is no theorem: it does not hold there, as
`empty_body` shows.  Every other property of a passing run is a theorem.

## What is not modelled

* The text of answers, JSON, HTML and log output; whether a value can be encoded is
  modelled, its encoding is not.
* Floats, decimals and times of tables: their packed form stands for them.  Buffers
  that end before their last value: the frame reader hands over whole payloads.  The
  formats f, A and T of `loads` and `dumps`, `decode_properties_basic` and
  `GenericContent`: used by no caller.
* Falsy values of another type in place of a header (`val or ''`), and booleans in
  place of a number.
* Further requests on an HTTP connection: the parser never starts a second cycle, so
  they are the bytes behind the first one.
* Bodies above the announced frame-max, which are sent in one frame.
* A protocol header in several segments or followed by other bytes: the first
  waits, the second closes the transport, which `check_protocol_header` has in
  the form of a first frame that is not the header.
* `store_message_in_queue`: called by nothing.  `__main__.py`: creates one `State` and
  two servers.

## Plan

The components are modelled, and their safety is proved.  Two things would say more:

* `Wire` leaves open which frames are answered, and `TrackerProtocol` starts from frames.
  A composition of the two, in which `said` is what `TrackerProtocol` decides, would carry
  `WireHeard` to the replies of the whole connection.
* The hazards of `PROJECT.json` without a property, for the reasons in their notes.
