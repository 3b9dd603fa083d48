SPECIFICATION Spec
CONSTANTS
  NumAccounts = 2
  Contacts <- MCContacts
  MaxStages = 3
  MaxRetries = 1
  RecursionLimit = 40
  ApprovalResults = {"approved", "pending", "error"}
CHECK_DEADLOCK FALSE
INVARIANT
  LastStageReached
