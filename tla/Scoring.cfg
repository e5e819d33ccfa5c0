CONSTANTS
  None = None
  a1 = a1
  a2 = a2
  Agents = {a1, a2}
  Now = 50
  KernelVersion <- Kernel
  Preferred = {"A2A", "MCP"}
  Calls <- Built
  Lists <- Both
  Starts <- Begins
  Domain <- Values
  Window = 2
  MaxEvents = 2
SPECIFICATION Spec
CHECK_DEADLOCK FALSE
INVARIANTS TypeOK RankedDescending ScoresInRange BetterNotLower LostIsUnknown WakesBestRanked ScoredAreRanked
