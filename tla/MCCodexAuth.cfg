\* Two logins in sequence and two other auth tasks.
SPECIFICATION Spec
CONSTANTS
  MaxLogins = 2
  Tasks = {t1, t2}
  None = None
SYMMETRY TaskSymmetry
CHECK_DEADLOCK FALSE
INVARIANTS
  TypeOK
  OneReservation
  NoStraySidecar
  AckedCancelStoresNothing
  FinalStateIsTrue
  EventsInPlace
PROPERTY
  ImplementsLogins
