SPECIFICATION Spec
CONSTANTS
  Accounts = {"a", "b", "c", "d"}
  None = "None"
  Similar <- MCSimilar
  Contacts = {"ca", "cb"}
  Owner <- MCOwner
  Batches <- MCBatches
  RecursionLimit = 30
  MaxStalls = 0
CHECK_DEADLOCK FALSE
INVARIANT
  DraftsGoToOwnContacts
