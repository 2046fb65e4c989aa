SPECIFICATION MCSpec
CONSTANTS
  q1 = q1
  q2 = q2
  q3 = q3
  global = global
  key = key
  workspace = workspace
  Requests = {q1, q2, q3}
  Scopes = {global, key, workspace}
  ScopesOf <- MCScopesOf
  Hard = {global, workspace}
  Offline = {q1}
  Limit <- MCLimit
  BudgetWindow <- MCBudgetWindow
  Month <- MCMonth
  MaxDate = 1
  Amount <- MCAmount
  TTL = 2
  Faults = {"redis", "crash"}
  Turns = {q1, q2, q3}
  Limits = {global, key}
  LimitsOf <- MCLimitsOf
  Tpm <- MCTpm
  Tokens <- MCTokens
  Shared = TRUE
  TokenFaults = {"redis"}
  MaxWindow = 1
  Ids = {q2, q3}
  Configs <- MCConfigs
  Rollouts <- MCRollouts
  Sizes = {1, 2}
  MaxNow = 5
  MaxCalls = 4
SYMMETRY Alike
INVARIANTS HardCap ReservedCovers NoPhantomCharge BackendsAgree
CHECK_DEADLOCK FALSE
