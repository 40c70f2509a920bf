SPECIFICATION MCSpec
CONSTANTS
  Exchanges = {dflt}
  DefaultExchange = dflt
  Types = {direct}
  DefaultType = direct
  Queues = {q1}
  Conns = {c1}
  Channels = {1}
  ConsumerTags = {a}
  Users = {guest}
  Passwords = {good}
  DefaultUser = guest
  DefaultPassword = good
  JsonBody = json
  WorkerBody = text
  RefusedBody = refused
  AllSlices <- MCSlices
  Messages <- MCMessages
  Unsendable = {refused}
  DeliveryTags = {1}
  Waiters = {w1, w2}
  Targets <- MCTargets
  Timeout = 1
  Calls <- MCBinaryCalls
  Readable = {text}
  Textual = {json, refused}
  AnyCall = {w1}
  FewCalls <- MCFewCalls
  NoCall = NoCall
  Free = Free
  MaxEntries = 1
  MaxConsumers = 1
INVARIANT BinaryBodyWhole
CHECK_DEADLOCK FALSE
