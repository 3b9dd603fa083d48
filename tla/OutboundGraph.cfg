SPECIFICATION Spec
CONSTANTS
  NumAccounts = 3
  Contacts <- MCContacts
  MaxStages = 3
  MaxRetries = 1
  RecursionLimit = 45
  ApprovalResults = {"approved", "pending", "error"}
CHECK_DEADLOCK FALSE
INVARIANTS
  TypeOK
  MailMatchesApprovedDraft
  MailsInOrder
  MessagesMatchOutbox
  BatchIsWalked
PROPERTIES
  NoMailAfterReply
  ImplementsCampaign
