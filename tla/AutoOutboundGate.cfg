SPECIFICATION Spec
CONSTANTS
  Callers = {g1, g2}
  Targets <- MCOneTarget
  Accounts = {a1}
  NoAccount = NoAccount
  DayLimit = 1
  WeekLimit = 1
  AccountLimit = 1
  LastDay = 1
  WeekLength = 7
  NewYear = 9
SYMMETRY Symmetry
CHECK_DEADLOCK FALSE
INVARIANTS
  TypeOK
  EveryTriggerIsPaid
PROPERTY
  TriggerPassesEveryCheck
