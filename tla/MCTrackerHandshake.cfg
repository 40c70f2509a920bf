SPECIFICATION MCSpec
CONSTANTS
  Exchanges = {dflt}
  DefaultExchange = dflt
  Types = {direct}
  DefaultType = direct
  Queues = {q1}
  Conns = {c1}
  Channels = {1, 256}
  ConsumerTags = {a}
  Users = {guest}
  Passwords = {good, bad}
  DefaultUser = guest
  DefaultPassword = good
  Messages = {m1}
  Unsendable = {}
  DeliveryTags = {1}
  UnitSize = 1
  MaxEntries = 0
  MaxIssued = 0
  MaxInFlight = 3
  MaxPublished = 0
  Idle = Idle
  None = None
  BodySize <- MCBodySize
  Requests <- HandshakeRequests
INVARIANTS NothingLeftUnread OpenChannelFitsByte ConsumerChannelOpen
CHECK_DEADLOCK FALSE
