SPECIFICATION Spec
CONSTANTS
  People = {p1, p2}
  Askers = {x1, x2}
  Nobody = Nobody
  Counts = {0, 1}
  PauseOnErrorRate = 10
  PauseOnNegativeReplyRate = 25
SYMMETRY PeopleAlike
INVARIANTS
  TypeOK
  PauseHolds
  ResumeHolds
