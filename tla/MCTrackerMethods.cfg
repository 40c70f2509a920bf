SPECIFICATION MCSpec
CONSTANTS
  Exchanges = {dflt, e1}
  DefaultExchange = dflt
  Types = {direct, fanout}
  DefaultType = direct
  Queues = {q1}
  Conns = {c1}
  Channels = {1}
  ConsumerTags = {a}
  Users = {guest}
  Passwords = {good}
  DefaultUser = guest
  DefaultPassword = good
  Messages = {m1}
  Unsendable = {}
  DeliveryTags = {1}
  UnitSize = 1
  MaxEntries = 0
  MaxIssued = 0
  MaxInFlight = 2
  MaxPublished = 1
  Idle = Idle
  None = None
  BodySize <- MCBodySize
  Requests <- MethodRequests
PROPERTIES BrokerSpec
CHECK_DEADLOCK FALSE
