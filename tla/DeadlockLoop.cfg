CONSTANTS
  Tasks = {1, 2, 3}
  Loops = {l1}
  Handlers = {}
  Batches = {}
  Scores = {0, 1}
  MaxKillPerHour = 1
  Hour = 2
  MaxRecords = 2
SPECIFICATION FairSpec
PROPERTIES CyclesBroken
