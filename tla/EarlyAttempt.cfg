SPECIFICATION GradedSpec
CONSTANTS
  None = None
  Malformed = Malformed
  Accounts <- FixAccounts
  OwnedAccounts <- FixOwned
  BlockedAccounts <- FixBlocked
  PrincipalAccount = "main"
  InitialBalance <- FixBalance
  PixKeys <- FixPixKeys
  AccountOf <- FixAccountOf
  IdempotencyKeys <- FixIdempotencyKeys
  RevKey <- FixRevKey
  AgentKeys <- FixAgentKeys
  FixtureTransfers <- NoHistory
  FixtureBeneficiaries <- NoBeneficiaries
  HistorySeed <- NoSeed
  InitialAuth <- Basic
  StartTime <- Noon
  TickSeconds = 60
  Policy <- EnforcedPolicy
  UserScripts <- Refuses
  ExpectedScopes <- NoScopes
  FaultPlans <- NoFaults
  Calls <- EarlyCalls
  MaxSteps = 3
  Tasks <- DeclineOnly
INVARIANT DenialComesFirst
