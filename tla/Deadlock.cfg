CONSTANTS
  Tasks = {1, 2, 3}
  Loops = {l1}
  Handlers = {h1}
  Batches = {{1, 2}}
  Scores = {0, 1}
  MaxKillPerHour = 1
  Hour = 2
  MaxRecords = 3
SPECIFICATION Spec
INVARIANTS TypeOK KillsRecorded KillsBounded
PROPERTIES CancelledOnce
