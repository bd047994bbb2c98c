SPECIFICATION PlanSpec
CONSTANTS
  Sessions = {s1, s2}
  Prompts = {p1, p2, p3, p4, p5}
  Via <- PromptsVia
  Dest <- PromptsDest
  Kills = {k1}
  Target <- KillsTarget
  MaxRunning = 1
  MaxCrashes = 1
  MaxFaults = 3
  Foreign = {s1}
  Plans <- SafePlans
  s1 = s1
  s2 = s2
  p1 = p1
  p2 = p2
  p3 = p3
  p4 = p4
  p5 = p5
  k1 = k1
  None = None
INVARIANTS
  TypeOK
  NoPromptForgotten
  DurableMatches
  SlotsHeld
PROPERTIES
  WithdrawnNeverStarts
  NeverAgain
