CONSTANTS
  Tasks = {1, 2, 3}
  Loops = {}
  Handlers = {h1, h2}
  Batches = {}
  Scores = {0}
  MaxKillPerHour = 1
  Hour = 1
  MaxRecords = 3
SPECIFICATION FairSpec
INVARIANTS WeighedStayStuck VictimsStayStuck
PROPERTIES CyclesBroken
