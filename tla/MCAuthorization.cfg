SPECIFICATION Spec
CONSTANTS
  None = None
  Malformed = Malformed
  Accounts <- FixAccounts
  OwnedAccounts <- FixOwned
  BlockedAccounts <- FixBlocked
  PrincipalAccount = "main"
  InitialBalance <- FixBalance
  PixKeys <- FixPixKeys
  AccountOf <- FixAccountOf
  IdempotencyKeys <- FixIdempotencyKeys
  RevKey <- FixRevKey
  AgentKeys <- FixAgentKeys
  FixtureTransfers <- NoHistory
  FixtureBeneficiaries <- NoBeneficiaries
  HistorySeed <- NoSeed
  InitialAuth <- ArrivesStrong
  StartTime <- Noon
  TickSeconds = 60
  Policy <- AuthorizationPolicy
  UserScripts <- AuthorizationScripts
  ExpectedScopes <- ExpectedByTask
  FaultPlans <- NoFaults
  Calls <- AuthorizationCalls
  MaxSteps = 6
INVARIANTS
  TypeOK
  AuditComplete
  ConsentSingleUse
  ConsentBacksTransfer
  StepUpBacksTransfer
PROPERTIES
  ServiceImplemented
