\* Two Desktop processes, one fault (a crash or a failed checkpoint).
SPECIFICATION Spec
CONSTANTS
  Procs = {p1, p2}
  None = None
  InitialPlans <- AllPlans
  MaxFaults = 1
SYMMETRY ProcSymmetry
INVARIANTS
  TypeOK
  SnapshotKeptUntilRestored
  JournalDecodes
  EffectsUnderDurableIntent
  AuthOnlyWithoutJournal
  ReplayInputsPresent
  RestoreUnderQuiescence
PROPERTIES
  OutcomesAreFinal
