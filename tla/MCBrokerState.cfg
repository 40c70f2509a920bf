SPECIFICATION MCSpec
CONSTANTS
  Exchanges = {dflt, e1}
  DefaultExchange = dflt
  Types = {direct}
  DefaultType = direct
  Queues = {q1, q2}
  Conns = {c1, c2}
  Channels = {1}
  ConsumerTags = {a, b}
  Users = {guest}
  Passwords = {good, bad}
  DefaultUser = guest
  DefaultPassword = good
  Messages = {m1, m2}
  Unsendable = {m2}
  DeliveryTags = {1}
  MaxEntries = 2
  MaxConsumers = 2
  MaxIssued = 1
SYMMETRY Symmetry
INVARIANTS BrokerTypeOK BindingsResolve DefaultBinding PushedTagIsIssued
PROPERTIES OneLiveReceiver LiveConsumersKept
CHECK_DEADLOCK FALSE
