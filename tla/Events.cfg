SPECIFICATION PlanSpec
CONSTANTS
  aw = aw
  s = s
  x = x
  y = y
  a = a
  Subscribers = {aw, s}
  Awaiter = aw
  Other = s
  Sessions = {x, y}
  Home = x
  Foreign = y
  Ids = {a}
  AnyScope = AnyScope
  Sentinel = Sentinel
  MaxSize = 2
  MaxLog = 4
  SmallLog = 4
INVARIANTS
  AwTypeOK
  SentinelAlwaysFits
  AwaiterSound
PROPERTIES
  ImplementsEventLog
  DroppedLearns
  WaitReturns
CHECK_DEADLOCK FALSE
