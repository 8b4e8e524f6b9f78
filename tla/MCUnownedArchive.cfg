\* One install; its archive is refused after it was written.
SPECIFICATION Spec
CONSTANTS
  i1 = i1
  i2 = i2
  Installs = {i1, i2}
  Removals = {}
  Package <- OnePackage
  None = None
  Torn = Torn
  Cap = 2
  MaxFaults = 1
  MaxEnv = 0
CHECK_DEADLOCK FALSE
INVARIANTS
  ChildrenOwned
