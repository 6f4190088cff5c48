CONSTANTS
  Callers = {c1, c2}
  Permits = 1
  old = old new = new r1 = r1 r2 = r2
  Requesters = {r1, r2}
  Models = {old, new}
  Chain <- MCChain
  Job <- MCJob
  MaxInflight = 1
  Budget = 1
  MaxCloses = 0
  NoSlot = NoSlot
  NoModel = NoModel
SPECIFICATION MCSpec
INVARIANT ReaperSweeps
CHECK_DEADLOCK FALSE
