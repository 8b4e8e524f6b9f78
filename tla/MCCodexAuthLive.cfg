\* One login and one other task, with the threads' and processes' fairness.
SPECIFICATION FairSpec
CONSTANTS
  MaxLogins = 1
  Tasks = {t1}
  None = None
CHECK_DEADLOCK FALSE
PROPERTIES
  CancelBeforeStartWins
  LoginEnds
  SidecarsFollow
