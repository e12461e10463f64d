SPECIFICATION WorkerSpec
CONSTANTS
  AsmDD = {r1, r2}
  Other = {a1}
  Bundled = bundled
  Versions = {1}
  Faults = {"parse", "add", "build"}
  Requests = {q1}
  Events = {"poll", "flush"}
INVARIANTS
  WorkerTypeOK
  OneBase
  AcceptedIsBuilt
  DirectivesDecide
  ExitIsQuiet
PROPERTY QuitEnds
