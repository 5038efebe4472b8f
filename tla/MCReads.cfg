SPECIFICATION Spec
CONSTANTS
  None = None
  Malformed = Malformed
  Accounts <- FixAccounts
  OwnedAccounts <- FixOwned
  BlockedAccounts <- FixBlocked
  PrincipalAccount = "main"
  InitialBalance <- FixBalance
  PixKeys <- FixPixKeys
  AccountOf <- FixAccountOf
  IdempotencyKeys <- FixIdempotencyKeys
  RevKey <- FixRevKey
  AgentKeys <- FixAgentKeys
  FixtureTransfers <- NoHistory
  FixtureBeneficiaries <- NoBeneficiaries
  HistorySeed <- ReadsSeed
  InitialAuth <- Basic
  StartTime <- Noon
  TickSeconds = 60
  Policy <- ReadsPolicy
  UserScripts <- Agrees
  ExpectedScopes <- NoScopes
  FaultPlans <- ReadsFaults
  Calls <- ReadsCalls
  MaxSteps = 5
INVARIANTS
  ReadBalanceTruthful
  ReadStatusTruthful
