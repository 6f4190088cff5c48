CONSTANTS
  MaxReruns = 2
  MaxHealth = 1
  Modes = {"off"}
  Policies = {}
SPECIFICATION Spec
INVARIANT DisagreementForbidsCatch
CHECK_DEADLOCK FALSE
