CONSTANTS
  Runs = {r1, r2, r3}
  Inputs <- CliInputs
  EventChunks = {2, 5}
  Faults = {"config", "shadow", "mkdir", "write", "remove", "rename", "kill"}
  None = None
SYMMETRY RunSymmetry
SPECIFICATION CliSpec
INVARIANTS
  OneAuthor
  ExitTellsOutput
  EveryFactApplied
  LeftoversExplained
  RefusedForAnother
