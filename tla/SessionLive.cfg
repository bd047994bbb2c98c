SPECIFICATION PlanFairSpec
CONSTANTS
  i0 = i0  i1 = i1  r1 = r1  r2 = r2  c1 = c1  f1 = f1  f2 = f2
  s1 = s1  k1 = k1  x1 = x1  x2 = x2  q1 = q1  q2 = q2  z1 = z1
  NoOp = NoOp  Stop = Stop
  Ops <- LiveOps
  Kind <- LiveKind
  Expected <- LiveNone
  Asker <- LiveAsker
  Plans <- LivePlans
  AllowStop = TRUE
  Quota = 1
  MaxActors = 1
PROPERTIES
  StopEnds
  ControlAnswered
  NormalLeavesQueue
  CancelledTurnFinishes
CHECK_DEADLOCK FALSE
