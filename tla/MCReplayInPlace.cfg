\* The same without reopening the Desktop.
SPECIFICATION FairSpec
CONSTANTS
  Procs = {p1}
  None = None
  InitialPlans <- FullPlans
  MaxFaults = 1
PROPERTIES
  ReplayConverges
