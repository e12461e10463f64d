SPECIFICATION Spec
CONSTANTS
  TerminatedFlag = FALSE
  Configs <- MCConfigs
  kMaxFilterData = 2
  MaxSaved = 1
  Faults = {"post", "abort", "alloc", "throw", "revent", "wevent", "again",
            "senderr", "eager"}
INVARIANTS
  RequestIntact
