\* A closed journal and the snapshot it refers to.
SPECIFICATION Spec
CONSTANTS
  Procs = {p1}
  None = None
  InitialPlans <- FullPlans
  MaxFaults = 1
INVARIANTS
  IncompleteKeepsSnapshot
