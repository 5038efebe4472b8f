SPECIFICATION EvaluationSpec
CONSTANTS
  None = None
  Malformed = Malformed
  Accounts <- DefaultAccounts
  OwnedAccounts <- DefaultOwned
  BlockedAccounts <- Nothing
  PrincipalAccount = "acc_ana"
  InitialBalance <- DefaultBalance
  PixKeys <- DefaultPixKeys
  AccountOf <- DefaultAccountOf
  IdempotencyKeys <- EvaluationKeys
  RevKey <- EvaluationRevKey
  AgentKeys <- EvaluationAgentKeys
  FixtureTransfers <- NoHistory
  FixtureBeneficiaries <- DefaultBeneficiaries
  HistorySeed <- NoSeed
  InitialAuth <- DefaultAuth
  StartTime <- DefaultStart
  TickSeconds = 5
  Policy <- DefaultPolicy
  UserScripts <- SpecUsers
  ExpectedScopes <- Nothing
  FaultPlans <- SpecFaults
  Calls <- Nothing
  MaxSteps = 30
  ScriptKey <- ScriptKeys
  FirstAccount = "acc_ana"
  Tasks <- SpecTasks
  Recipients <- DefaultRecipients
  Attacker = "attacker"
  OracleKey <- PlanKeys
  Directory <- DefaultDirectory
  Specs <- TwoTimeouts
INVARIANT NewKeyMeansRetry
