\* A removal and an install; the directory changes by hand between two effects.
SPECIFICATION Spec
CONSTANTS
  i1 = i1
  i2 = i2
  Installs = {i1}
  Removals = {r1}
  Package <- OnePackage
  None = None
  Torn = Torn
  Cap = 2
  MaxFaults = 1
  MaxEnv = 1
CHECK_DEADLOCK FALSE
PROPERTIES
  NoConvenientFalse
