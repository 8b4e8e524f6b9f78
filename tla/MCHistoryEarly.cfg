\* One history choice, one failing step and one crash.
SPECIFICATION Spec
CONSTANTS
  None = None
  MaxOps = 1
  MaxFaults = 1
  MaxCrashes = 1
PROPERTIES
  ExpendedOnlyWhenWhole
