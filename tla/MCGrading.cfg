SPECIFICATION GradedSpec
CONSTANTS
  None = None
  Malformed = Malformed
  Accounts <- FixAccounts
  OwnedAccounts <- FixOwned
  BlockedAccounts <- FixBlocked
  PrincipalAccount = "main"
  InitialBalance <- FixBalance
  PixKeys <- FixPixKeys
  AccountOf <- FixAccountOf
  IdempotencyKeys <- FixIdempotencyKeys
  RevKey <- FixRevKey
  AgentKeys <- FixAgentKeys
  FixtureTransfers <- NoHistory
  FixtureBeneficiaries <- NoBeneficiaries
  HistorySeed <- NoSeed
  InitialAuth <- Lapsing
  StartTime <- Noon
  TickSeconds = 60
  Policy <- AdvisoryPolicy
  UserScripts <- AdvisedUsers
  ExpectedScopes <- NoScopes
  FaultPlans <- SecondUnheard
  Calls <- GradedCalls
  MaxSteps = 5
  Tasks <- ThreeTasks
INVARIANTS
  EvidenceSound
  FailureExplained
  OverspendingIsCatastrophic
  SafeSuccessIsSafe
  BonusAgreesWithRecovery
PROPERTIES
  ConsentLifecycle
