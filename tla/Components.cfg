SPECIFICATION Spec
CONSTANTS
  Texts = {"a", "b"}
  MaxRaw = 8
  Readers = {"p"}
  Values = {"v"}
  Unset = Unset
  MaxBatches = 2
  MaxUpdates = 1
  MaxFaults = 1
  Clients = {c1}
  c1 = c1
  NoTape = NoTape
  MaxTurns = 2
  MaxLoads = 2
  MaxPieces = 4
  Interleaved = TRUE
  FarRewinds = TRUE
  SlowUsage = TRUE
  Sequential = {"s1", "s2"}
  Concurrent = {"a1", "a2"}
  MaxFailed = 1
  MaxEmpty = 1
  Fallbacks = 1
  MaxSteps = 2
  Ops = {"o1"}
  MaxSaid = 3
  SwitchWhileWaiting = FALSE
  Procs = {"q1", "q2"}
  Cmds = {"c1", "c2"}
  NoProc = NoProc
  MaxEvents = 1
  Msgs = {"m1", "m2"}
  None = None
  MaxExtras = 1
  MaxLag = 4
  Contents = {"a", "b"}
  Gone = "gone"
  NoText = "none"
  OldSessions = TRUE
  AgentCalls = {"a1", "a2"}
  MaxTroubles = 2
  BatchSize = 2
  MaxReplies = 2
  MaxPrompts = 2
  MaxDeltas = 2
  LateUnstreamed = FALSE
INVARIANTS
  TypesHold
  HistoryKept
  FilesAgree
  AttachWhole
  ClientInStep
  OneServerAtATime
  QueueDrains
  TurnWhole
  FilesKnown
  ChildrenAnswer
  ScreenTrue
CHECK_DEADLOCK FALSE
