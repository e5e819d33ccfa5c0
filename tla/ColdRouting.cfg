CONSTANTS
  r1 = r1
  r2 = r2
  Words = 32
  BitXor <- Caret
  Requests = {r1, r2}
  Hash <- TwoHashes
  NoID = none
  Callers = {c1, c2}
  Num = 1
  Den = 2
  Eligible = 2
  Seeds = {26}
  MaxStreak = 1
SPECIFICATION Spec
INVARIANTS TypeOK ZeroIsMended
