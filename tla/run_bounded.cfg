CONSTANTS
  Callers = {c1, c2}
  Permits = 1
  old = old new = new r1 = r1 r2 = r2
  Requesters = {r1, r2}
  Models = {old, new}
  Chain <- MCChain
  Job <- MCJob
  MaxInflight = 1
  Budget = 2
  MaxCloses = 1
  NoSlot = NoSlot
  NoModel = NoModel
SPECIFICATION MCFairSpec
INVARIANT PermitsConserved
INVARIANT ResultIsContained
INVARIANT SessionIsDead
INVARIANT SlotsBound
INVARIANT PaidIsReported
PROPERTY CallsReturn
PROPERTY ReapersFollow
PROPERTY RouterReturns
CHECK_DEADLOCK FALSE
