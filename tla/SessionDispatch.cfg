SPECIFICATION PlanSpec
CONSTANTS
  i0 = i0  i1 = i1  r1 = r1  r2 = r2  c1 = c1  f1 = f1  f2 = f2
  s1 = s1  k1 = k1  x1 = x1  x2 = x2  q1 = q1  q2 = q2  z1 = z1
  NoOp = NoOp  Stop = Stop
  Ops <- DispatchOps
  Kind <- DispatchKind
  Expected <- DispatchNone
  Asker <- DispatchNone
  Plans <- DispatchPlans
  AllowStop = FALSE
  Quota = 1
  MaxActors = 2
INVARIANTS
  TypeOK
  OnePlace
  FinishedOnce
  BypassBound
PROPERTIES
  ReclaimSparesWork
  KeepsContract
CHECK_DEADLOCK FALSE
