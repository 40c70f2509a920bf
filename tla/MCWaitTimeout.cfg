SPECIFICATION MCSpec
CONSTANTS
  Exchanges = {dflt, e1}
  DefaultExchange = dflt
  Types = {direct}
  DefaultType = direct
  Queues = {q1}
  Conns = {}
  Channels = {1}
  ConsumerTags = {a}
  Users = {guest}
  Passwords = {good, bad}
  DefaultUser = guest
  DefaultPassword = good
  Messages = {}
  Unsendable = {}
  DeliveryTags = {1}
  Waiters = {w1, w2}
  Targets <- MCTargets
  Timeout = 2

PROPERTIES TimeoutMeansNotAcknowledged
CHECK_DEADLOCK FALSE
