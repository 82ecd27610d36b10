SPECIFICATION Spec
CONSTANTS
  Servers = {"p", "q"}
  Decisions <- MCDecisions
  Sinks <- MCSinks
  MaxPath = 7
  Stored <- MCStored
  Read <- MCRead
  Resets = 1
INVARIANTS
  CountedExactly
  RecordedEverywhere
PROPERTIES
  EverythingReported
