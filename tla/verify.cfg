CONSTANTS
  MaxReruns = 2
  MaxHealth = 1
  Modes = {"required", "off"}
  Policies = {"readiness", "output_guard"}
  Dists = {"lib"}
  Versions <- MCVersions
  ManifestFiles <- MCManifestFiles
  Executions <- MCExecutions
  Outputs <- MCOutputs
  MaxEntries = 3
  MaxFiles = 2
  MaxBytes = 1
SPECIFICATION MCSpec
INVARIANTS RecordMeansWhatItSays PolicyNeverBypassed ConsumerAgrees CensusTruthful
PROPERTIES Refines InvocationEnds
CHECK_DEADLOCK FALSE
