CONSTANTS
  Builder = {b1, b2}
  Scripts <- BuildScripts
  BatchRows = 2
  PipeRows = 1
  Faults = {"crash", "disk", "kill", "removal", "timeout"}
  None = None
SPECIFICATION BuildSpec
INVARIANTS
  OutputIsComplete
  FailureLeavesNoOutput
PROPERTIES
  PublishedOnce
  BuildEnds
