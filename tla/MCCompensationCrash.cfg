\* The fullest failed run under three faults, against the contract, and settled
\* in the end when a refused user reopens the Desktop.
SPECIFICATION ReopeningSpec
CONSTANTS
  Procs = {p1, p2}
  None = None
  InitialPlans <- FullPlans
  MaxFaults = 3
PROPERTIES
  ImplementsContract
  CompensationSettles
