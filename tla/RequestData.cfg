SPECIFICATION DataSpec
CONSTANTS
  Boundary <- MCBoundary
  Headers <- MCHeaders
  PartSet <- MCPartSet
  PairSet <- MCPairSet
  Raws <- MCRaws
  MaxParts = 2
  MaxPairs = 2
  MaxRaw = 4
  MaxEvents = 8
  Pton <- MCPton
  QValues <- MCQValues
  Requests <- MCRequests
  Results <- MCResults
  Responses <- MCResponses
  PlainRequest <- MCPlainRequest
  PlainResult <- MCPlainResult
  PlainResponse <- MCPlainResponse
  AutoResult <- MCAutoResult
CHECK_DEADLOCK FALSE
INVARIANTS
  
  
  BlockedAsAsked
  
  
  JsonSeen
