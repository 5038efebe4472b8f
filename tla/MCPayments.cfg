SPECIFICATION Spec
CONSTANTS
  None = None
  Malformed = Malformed
  Accounts <- FixAccounts
  OwnedAccounts <- FixOwned
  BlockedAccounts <- FixBlocked
  PrincipalAccount = "main"
  InitialBalance <- FixBalance
  PixKeys <- FixPixKeys
  AccountOf <- FixAccountOf
  IdempotencyKeys <- PaymentsKeys
  RevKey <- FixRevKey
  AgentKeys <- PaymentsAgentKeys
  FixtureTransfers <- PaymentsHistory
  FixtureBeneficiaries <- NoBeneficiaries
  HistorySeed <- NoSeed
  InitialAuth <- Basic
  StartTime <- Noon
  TickSeconds = 60
  Policy <- PaymentsPolicy
  UserScripts <- Agrees
  ExpectedScopes <- NoScopes
  FaultPlans <- PaymentsFaults
  Calls <- PaymentsCalls
  MaxSteps = 6
INVARIANTS
  LedgerBalanced
  IdempotencyUnique
  ReversalPaired
  ReversalExact
  CreateAnswersTruthfully
  EpisodeBounded
PROPERTIES
  ErrorsAreInert
  ServiceImplemented
