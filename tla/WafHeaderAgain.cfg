SPECIFICATION Spec
CONSTANTS
  TerminatedFlag = TRUE
  Configs <- MCConfigs
  kMaxFilterData = 2
  MaxSaved = 1
  Faults = {"again"}
INVARIANTS
  OneResponse
