CONSTANTS
  Runs = {r1}
  Inputs <- CliInputs
  EventChunks = {2}
  Faults = {"close"}
  None = None
SPECIFICATION CliSpec
INVARIANTS
  IoErrorsReturnThree
