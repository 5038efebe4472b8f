SPECIFICATION ProviderSpec
CONSTANTS
  None = None
  Malformed = Malformed
  Accounts <- FixAccounts
  OwnedAccounts <- FixOwned
  BlockedAccounts <- FixBlocked
  PrincipalAccount = "main"
  InitialBalance <- FixBalance
  PixKeys <- FixPixKeys
  AccountOf <- FixAccountOf
  IdempotencyKeys <- FixIdempotencyKeys
  RevKey <- FixRevKey
  AgentKeys <- FixAgentKeys
  FixtureTransfers <- NoHistory
  FixtureBeneficiaries <- NoBeneficiaries
  HistorySeed <- NoSeed
  InitialAuth <- Basic
  StartTime <- Noon
  TickSeconds = 60
  Policy <- LLMPolicy
  UserScripts <- Agrees
  ExpectedScopes <- NoScopes
  FaultPlans <- LLMFaults
  Calls <- LLMCalls
  MaxSteps = 6
  Turns <- LLMTurns
  Responses <- LLMResponses
  MaxAttempts = 3
  BlankId = BlankId
  Unparsable = Unparsable
INVARIANTS
  TranscriptCorrelated
  NeverTruncated
  RequestsWellFormed
PROPERTIES
  BatchOnlyReads
  EpisodeDeclares
