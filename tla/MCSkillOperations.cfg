\* Two installs and a removal of one Skill name under a bound of two plans; two
\* faults of any kind, one of which may be a change made by hand.
SPECIFICATION Spec
CONSTANTS
  i1 = i1
  i2 = i2
  Installs = {i1, i2}
  Removals = {r1}
  Package <- OnePackage
  None = None
  Torn = Torn
  Cap = 2
  MaxFaults = 2
  MaxEnv = 1
VIEW Unanswered
SYMMETRY InstallSymmetry
CHECK_DEADLOCK FALSE
INVARIANTS
  TypeOK
  EffectsOnce
  RecordTruth
  CapacityHolds
PROPERTIES
  ActsOnSealedSubject
  AnswersHonest
  RecoveryKept
