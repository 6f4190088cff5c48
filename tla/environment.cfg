SPECIFICATION MCSpec
CONSTANTS
  script = script
  older = older
  newer = newer
  broken = broken
  dynamic = dynamic
  escaping = escaping
  Checkouts <- MCCheckouts
  Tree <- MCTree
  Escapes = {escaping}
  Requires <- AnyPython
  Cutoff <- SameTime
  UvPresent = TRUE
  HostMinor = 12
  Budget = 1
  StepLimit = 2
  MinTimeout = 2
  NoCheckout = NoCheckout
  Procs = {1, 2}
  Commands <- MCCommands
INVARIANT EditableIsPrivate
INVARIANT FreshIsComplete
INVARIANT WithinBudget
INVARIANT ExitIsReported
INVARIANT TornDown
PROPERTY ProvisioningEnds
