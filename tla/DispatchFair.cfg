CONSTANTS
  Agents = {a1, a2}
  NoAgent = none
  Callers = {c1}
  Skilled = {a1}
  Scores = {0}
  Engines = {"trust"}
  Reads = {"ok"}
  MaxRetry = 1
  MaxChanges = 1
SPECIFICATION FairSpec
CHECK_DEADLOCK FALSE
PROPERTIES CallEnds KeepsPromise
