\* Two operations, one failing file operation, one change of a component or of
\* the configuration by something else, one crash and one boot decision.
SPECIFICATION Spec
CONSTANTS
  r1 = r1
  r2 = r2
  Contents = {r1, r2}
  MaxOps = 2
  MaxFaults = 1
  MaxEnv = 1
  MaxCrashes = 1
  MaxBoots = 1
SYMMETRY ContentSymmetry
CHECK_DEADLOCK FALSE
INVARIANTS
  TypeOK
  LedgersExclude
  RecordsAnchored
  ReceiptTruth
PROPERTIES
  FenceClearedIsSettled
  RestoreAuthority
  HonestFailure
