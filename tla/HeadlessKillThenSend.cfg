SPECIFICATION FairSpec
CONSTANTS
  Sessions = {s1}
  Prompts = {p1, p2}
  Via <- SpawnSend
  Dest <- AllToOne
  Kills = {k1}
  Target <- OneSession
  MaxRunning = 1
  MaxCrashes = 0
  MaxFaults = 0
  Foreign = {}
  s1 = s1
  s2 = s2
  p1 = p1
  p2 = p2
  p3 = p3
  k1 = k1
  None = None
PROPERTIES
  Delivered
