SPECIFICATION FairSpec
CONSTANTS
  k1 = k1
  k2 = k2
  Callers = {k1, k2}
  Assignments <- MCAssignments
  MaxIssued = 2
  MaxTokens <- MCMaxTokens
  RefillSecs = 2
  Skew = 1
  MaxTime = 5
INVARIANTS
  TypeOK
  GrantsBounded
  RequestsArePaid
  DoubledOnlyByLoss
  RejectedTokenForgotten
PROPERTY CallsEnd
