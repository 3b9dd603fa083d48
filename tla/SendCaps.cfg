SPECIFICATION CapsSpec
CONSTANTS
  Callers = {c1, c2}
  Accounts = {a1}
  NoAccount = NoAccount
  DayLimit = 1
  WeekLimit = 2
  AccountLimit = 1
  LastDay = 3
  WeekLength = 4
  NewYear = 1
SYMMETRY Symmetry
CHECK_DEADLOCK FALSE
INVARIANTS
  CapsTypeOK
  OvershootBounded
PROPERTY
  CountersOutliveWindow
