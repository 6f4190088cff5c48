CONSTANTS
  MaxTests = 2
  LateFaults = TRUE
  PolicyChoices = {"strict", "block-on-refusal"}
  Overrides = {"none", "off", "required"}
  Trusts = {"fork", "internal"}
  Leftovers = {1}
SPECIFICATION Spec
INVARIANT UntrustedConfined
INVARIANT EvidenceIsOurs
INVARIANT CensusIsTrue
INVARIANT ExitIsEvidenced
INVARIANT SequencedIsBound
CHECK_DEADLOCK FALSE
