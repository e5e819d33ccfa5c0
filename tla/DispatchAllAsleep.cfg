CONSTANTS
  Agents = {a1, a2}
  NoAgent = none
  Callers = {c1}
  Skilled = {a1}
  Scores = {0, 1}
  Engines = {"trust"}
  Reads = {"ok", "error"}
  MaxRetry = 0
  MaxChanges = 1
SPECIFICATION Spec
INVARIANT NoEmptyDispatch
