SPECIFICATION FairSpec
CONSTANTS
  TerminatedFlag = TRUE
  Configs <- MCConfigs
  kMaxFilterData = 2
  MaxSaved = 1
  Faults = {"post", "abort", "throw", "wevent"}
INVARIANTS
  ResponseComplete
  WafSeesSubmitted
  BlockedIsReported
PROPERTIES
  RequestEnds
