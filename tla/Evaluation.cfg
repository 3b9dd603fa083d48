SPECIFICATION Spec
CONSTANTS
  Size <- MCSize
  Revenue <- MCRevenue
  DisqualifyBelow = 20
  DisqualifyRules = {"employee_count_below_20", "pre_revenue", "existing_customer"}
  Fresh = 2
  Stale = 6
  Expired = 12
  TopSignals = 2
  Thresholds <- MCThresholds
  Accounts <- MCAccounts
  MaxScored = 2
  TopAccounts <- MCTopAccounts
  TopContacts = 1
INVARIANTS
  TypeOK
  RankingFollowsEvidence
  ReportIsConsistent
CHECK_DEADLOCK FALSE
