SPECIFICATION Spec
CONSTANTS
  Switches = {"unset", "on", "off"}
  Bytes = {"x", "<", ">"}
  BufferLen = 2
  MaxBuffers = 3
  Responses <- AllResponses
  SubResponses <- NotHtml
  Failures = {"header", "link"}
INVARIANTS
  OnlyWhereAsked
  
  LengthKept
