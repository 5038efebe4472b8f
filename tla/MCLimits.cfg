SPECIFICATION Spec
CONSTANTS
  None = None
  Malformed = Malformed
  Accounts <- FixAccounts
  OwnedAccounts <- FixOwned
  BlockedAccounts <- FixBlocked
  PrincipalAccount = "main"
  InitialBalance <- LimitsBalance
  PixKeys <- LimitsPixKeys
  AccountOf <- LimitsAccountOf
  IdempotencyKeys <- LimitsKeys
  RevKey <- FixRevKey
  AgentKeys <- LimitsAgentKeys
  FixtureTransfers <- NoHistory
  FixtureBeneficiaries <- LimitsBeneficiaries
  HistorySeed <- NoSeed
  InitialAuth <- Basic
  StartTime <- Evening
  TickSeconds = 3600
  Policy <- LimitsPolicy
  UserScripts <- Agrees
  ExpectedScopes <- NoScopes
  FaultPlans <- NoFaults
  Calls <- LimitsCalls
  MaxSteps = 6
INVARIANTS
  DailyCap
  CoolingRespected
PROPERTIES
  DryRunHolds
