SPECIFICATION MCSpec
CONSTANTS
  script = script
  older = older
  newer = newer
  broken = broken
  T1 = T1
  R1 = R1
  Checkouts <- MCCheckouts
  Tree <- MCTree
  Escapes = {}
  Requires <- AnyPython
  Cutoff <- SameTime
  UvPresent = FALSE
  HostMinor = 12
  Budget = 1
  StepLimit = 0
  MinTimeout = 0
  NoCheckout = NoCheckout
  Procs = {1, 2, 3}
  Users = {1, 2, 3}
  NoKey = NoKey
  EmptyKey = EmptyKey
  NoSeed = NoSeed
  None = None
  Manifests <- MCManifests
  Preregistered <- MCPreregistered
  Irregular <- MCIrregular
  DiagnosticRows <- MCDiagnosticRows
  Row <- MCSharedRow
  Repositories = {R1}
  Tests = {T1}
  Missing = {}
  Given = {"proven_catch", "inconclusive"}
  Workers = 2
  MaxRestarts = 0
INVARIANT NoManufacturedVerdict
