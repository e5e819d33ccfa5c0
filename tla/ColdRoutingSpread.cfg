CONSTANTS
  r1 = r1
  r2 = r2
  Words = 4096
  BitXor <- Caret
  Requests = {}
  Hash <- NoHashes
  NoID = none
  Callers = {c1}
  Num = 1
  Den = 1
  Eligible = 2
  Seeds = {3098}
  MaxStreak = 16
SPECIFICATION Spec
INVARIANT PicksSpread
