SPECIFICATION MCFairSpec
CONSTANTS
  Exchanges = {dflt, e1}
  DefaultExchange = dflt
  Types = {direct}
  DefaultType = direct
  Queues = {}
  Conns = {c1}
  Channels = {1, 2}
  ConsumerTags = {a}
  Users = {guest}
  Passwords = {good}
  DefaultUser = guest
  DefaultPassword = good
  Messages = {m1}
  Unsendable = {}
  DeliveryTags = {1}
  UnitSize = 2
  MaxEntries = 2
  MaxIssued = 0
  MaxInFlight = 3
  MaxPublished = 2
  Idle = Idle
  None = None
  BodySize <- MCBodySize
  Requests <- PublisherRequests
INVARIANTS TrackerTypeOK StoredAsPublished InStep
PROPERTIES PublishedIsStored
CHECK_DEADLOCK FALSE
