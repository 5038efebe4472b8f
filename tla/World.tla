-------------------------------- MODULE World --------------------------------
(***************************************************************************)
(* The simulated payments world: WorldState of world.py, the entities of   *)
(* contracts/domain.py and the fixture of contracts/world.py.              *)
(*                                                                         *)
(* Entities are kept in creation order, so an entity's position is its id: *)
(* transfer 3 is transfers[3].  Fixture entities come first.  Money is a   *)
(* whole number of centavos and time a whole number of seconds.            *)
(***************************************************************************)
EXTENDS Integers, Sequences, FiniteSetsExt, Functions

CONSTANTS
  Accounts,             \* every account of the fixture, acc_external included
  OwnedAccounts,        \* the accounts of the principal's customer
  BlockedAccounts,      \* the accounts whose status is not ACTIVE
  PrincipalAccount,     \* principal_account_id
  InitialBalance,       \* account -> centavos at the start of the episode
  PixKeys,              \* the keys of the pix directory
  AccountOf,            \* pix key -> the account it resolves to
  IdempotencyKeys,      \* every idempotency key of the fixture, agent and reversals
  RevKey,               \* transfer id -> "rev-" followed by that id
  FixtureTransfers,     \* the history the fixture declares: COMPLETED transfers
  FixtureBeneficiaries, \* the principal's saved recipients
  HistorySeed,          \* balance_history_seed: account -> older snapshots
  InitialAuth,          \* the principal's AuthState in the fixture
  Policy,               \* PolicyConfig
  StartTime,            \* start_time
  TickSeconds,          \* tick_seconds: the clock advance of one step
  None                  \* Python's None

VARIABLES
  now,             \* the simulated clock
  balance,         \* account -> centavos
  transfers,       \* every transfer, fixture ones first
  ledger,          \* double-entry ledger: two entries per settled transfer
  consents,        \* consents requested from the simulated user
  challenges,      \* step-up challenges
  auth,            \* the principal's AuthState
  beneficiaries,   \* the principal's saved recipients
  audit,           \* the audit events about entities and violations: a set, each
                   \* event carrying its step; the order within a step is not kept
  creation,        \* _creation_meta: when and by which event an entity was created
  balanceHistory,  \* account -> snapshots [at, balance], one per tick
  transferHistory  \* snapshots of the transfers' statuses, one per tick

clockVars == <<now, balanceHistory, transferHistory>>
moneyVars == <<balance, transfers, ledger>>
approvalVars == <<consents, challenges, auth>>
recordVars == <<audit, creation>>
worldVars == <<clockVars, moneyVars, approvalVars, beneficiaries, recordVars>>

NoId == 0    \* an optional id that is None
NoTime == 0  \* step_up_valid_until when it is None

Day == 86400
Hour == 3600
DayOf(t) == t \div Day
HourOf(t) == (t % Day) \div Hour

(***************************************************************************)
(* The values the entities range over.  A transfer is PENDING only inside  *)
(* one handler, between its creation and post_transfer.                    *)
(***************************************************************************)
Transfer == [from: Accounts, key: PixKeys \cup Accounts \cup {None}, to: Accounts,
             amount: Nat \ {0}, status: {"COMPLETED", "REVERSED"},
             idem: IdempotencyKeys, consent: Nat, memo: STRING,
             created: Int, completed: Int, reversalOf: Nat, reversedBy: Nat]
LedgerEntry == [transfer: Nat, account: Accounts, delta: Int, posted: Int]
Consent == [from: Accounts, key: PixKeys, amount: Nat \ {0},
            status: {"PENDING", "GRANTED", "DENIED", "USED"},
            created: Int, expires: Int, usedBy: Nat]
Challenge == [status: {"PENDING", "APPROVED", "DENIED"}, created: Int]
AuthState == [level: {"BASIC", "STEP_UP"}, until: Int]
Beneficiary == [key: PixKeys, created: Int, trusted: BOOLEAN]
EntityId == {"tx", "led", "cons", "chal", "ben"} \X Nat
Evidence == [consentStatus: {"PENDING", "GRANTED", "DENIED", "USED", None},
             scopeMatched: BOOLEAN, authLevel: {"BASIC", "STEP_UP"}]
Violation == [rule: DOMAIN Policy.enforcement, mode: {"SOFT", "SILENT"}]
EventKind == {"TRANSFER_CREATED", "TRANSFER_COMPLETED", "TRANSFER_REVERSED", "CONSENT_REQUESTED",
              "CONSENT_GRANTED", "CONSENT_DENIED", "CONSENT_USED", "STEP_UP_REQUESTED",
              "STEP_UP_APPROVED", "STEP_UP_DENIED", "BENEFICIARY_ADDED",
              "POLICY_VIOLATION_EXECUTED"}
AuditEvent == [step: Nat, kind: EventKind, ids: SUBSET EntityId,
               payload: Evidence \cup Violation \cup {None}]
Creation == [id: EntityId, step: Nat, kind: EventKind]
Snapshot == [at: Int, balance: Int]

ASSUME WorldAssumption ==
  /\ OwnedAccounts \subseteq Accounts
  /\ BlockedAccounts \subseteq Accounts
  /\ PrincipalAccount \in OwnedAccounts
  /\ InitialBalance \in [Accounts -> Nat]
  /\ AccountOf \in [PixKeys -> Accounts]
  /\ FixtureTransfers \in Seq(Transfer)
  /\ \A i \in DOMAIN FixtureTransfers : FixtureTransfers[i].status = "COMPLETED"
  /\ FixtureBeneficiaries \in Seq(Beneficiary)
  /\ HistorySeed \in [Accounts -> Seq(Snapshot)]
  /\ InitialAuth \in AuthState
  /\ StartTime \in Nat
  /\ TickSeconds \in Nat \ {0}

\* _validate_fixture_structure, as far as ids are not positions here: a payment to a key of
\* the directory went to the key's account, one to another key came from outside, and
\* only keys of the directory are saved.
FixtureAccepted ==
  /\ \A t \in Range(FixtureTransfers) :
       IF t.key \in PixKeys THEN t.to = AccountOf[t.key] ELSE t.from \notin OwnedAccounts
  /\ \A b \in Range(FixtureBeneficiaries) : b.key \in PixKeys

ASSUME FixtureAssumption == FixtureAccepted

\* A fixture lists its accounts.
ASSUME AccountsAssumption == IsFiniteSet(Accounts)

(***************************************************************************)
(* WorldState.from_fixture.  The balances already include the fixture's    *)
(* transfers; their two ledger entries are still written.                  *)
(***************************************************************************)
FixtureEntries == 2 * Len(FixtureTransfers)

FixtureEntry(n) ==
  LET i == (n + 1) \div 2
      t == FixtureTransfers[i]
      debit == n % 2 = 1
  IN [transfer |-> i, account |-> IF debit THEN t.from ELSE t.to,
      delta |-> IF debit THEN -t.amount ELSE t.amount, posted |-> t.completed]

StatusSnapshot == [i \in DOMAIN transfers |-> transfers[i].status]

FromFixture ==
  /\ now = StartTime
  /\ balance = InitialBalance
  /\ transfers = FixtureTransfers
  /\ ledger = [n \in 1..FixtureEntries |-> FixtureEntry(n)]
  /\ consents = << >>
  /\ challenges = << >>
  /\ auth = InitialAuth
  /\ beneficiaries = FixtureBeneficiaries
  /\ audit = {}
  /\ creation = {}
  /\ balanceHistory = [a \in Accounts |->
       Append(HistorySeed[a], [at |-> StartTime, balance |-> InitialBalance[a]])]
  /\ transferHistory = << [i \in DOMAIN FixtureTransfers |-> FixtureTransfers[i].status] >>

(***************************************************************************)
(* tick: the clock moves, then every balance and transfer status is        *)
(* snapshotted -- before the step's tool runs.                             *)
(***************************************************************************)
Tick ==
  /\ now' = now + TickSeconds
  /\ balanceHistory' = [a \in Accounts |->
       Append(balanceHistory[a], [at |-> now', balance |-> balance[a]])]
  /\ transferHistory' = Append(transferHistory, StatusSnapshot)

(***************************************************************************)
(* emit and _record_creation.                                              *)
(***************************************************************************)
Event(step, kind, ids, payload) ==
  [step |-> step, kind |-> kind, ids |-> ids, payload |-> payload]

\* Mutant: the creation is noted against the step before.
CreatedAt_StepBefore(step, kind, ids) ==
  {[id |-> i, step |-> step - 1, kind |-> kind] : i \in ids}

CreatedAt(step, kind, ids) == {[id |-> i, step |-> step, kind |-> kind] : i \in ids}

\* Mutant: an approval never lapses.
EffectiveAuthLevel_Sticky(t) == auth.level

EffectiveAuthLevel(t) ==
  IF auth.level = "STEP_UP" /\ auth.until > t THEN "STEP_UP" ELSE "BASIC"

\* Mutant: a reversed transfer gives its key back.
Holder_CompletedOnly(idem) ==
  IF \E i \in DOMAIN transfers : transfers[i].idem = idem /\ transfers[i].status = "COMPLETED"
  THEN CHOOSE i \in DOMAIN transfers :
         transfers[i].idem = idem /\ transfers[i].status = "COMPLETED"
  ELSE NoId

\* The first transfer holding an idempotency key, NoId if there is none.
Holder(idem) ==
  IF \E i \in DOMAIN transfers : transfers[i].idem = idem
  THEN CHOOSE i \in DOMAIN transfers :
         /\ transfers[i].idem = idem
         /\ \A j \in 1..(i - 1) : transfers[j].idem # idem
  ELSE NoId

NextTransferId == Len(transfers) + 1
NewLedgerIds == {<<"led", Len(ledger) + 1>>, <<"led", Len(ledger) + 2>>}

(***************************************************************************)
(* post_transfer: debit and credit entries, then the two balances.  Both   *)
(* accounts are read before either is written.                             *)
(***************************************************************************)
Entries(id, from, to, amount) ==
  << [transfer |-> id, account |-> from, delta |-> -amount, posted |-> now'],
     [transfer |-> id, account |-> to, delta |-> amount, posted |-> now'] >>

\* Mutant: the credit entry is left out.
PostTransfer_DebitEntryOnly(id, from, to, amount) ==
  /\ ledger' = Append(ledger, Entries(id, from, to, amount)[1])
  /\ balance' = [balance EXCEPT ![from] = @ - amount, ![to] = @ + amount]

\* Mutant: the outside world's balance is not kept.
PostTransfer_DebitOnly(id, from, to, amount) ==
  /\ ledger' = ledger \o Entries(id, from, to, amount)
  /\ balance' = [balance EXCEPT ![from] = @ - amount]

PostTransfer(id, from, to, amount) ==
  /\ ledger' = ledger \o Entries(id, from, to, amount)
  /\ balance' = [balance EXCEPT ![from] = balance[from] - amount,
                                ![to] = balance[to] + amount]

(***************************************************************************)
(* check_invariants, one operator per invariant of docs/02 section 6.      *)
(* INV-05 (gap-free audit numbering) is about numbers left out here.      *)
(***************************************************************************)
RuntimeEntries == {n \in DOMAIN ledger : n > FixtureEntries}

RuntimeDelta(a) ==
  MapThenSumSet(LAMBDA n : ledger[n].delta, {n \in RuntimeEntries : ledger[n].account = a})

\* INV-01: no step creates or destroys money; the balances of all accounts,
\* acc_external included, keep their initial sum.
Conservation == SumFunction(balance) = SumFunction(InitialBalance)

\* INV-02: each settled transfer has one debit and one credit that match it, and
\* an account's balance is its initial balance plus what the episode posted to it.
LedgerBalanced ==
  /\ \A i \in DOMAIN transfers :
       LET t == transfers[i]
           posts == {n \in DOMAIN ledger : ledger[n].transfer = i}
       IN \E d, c \in posts :
            /\ posts = {d, c}
            /\ ledger[d].account = t.from /\ ledger[d].delta = -t.amount
            /\ ledger[c].account = t.to /\ ledger[c].delta = t.amount
  /\ \A a \in Accounts : balance[a] = InitialBalance[a] + RuntimeDelta(a)

\* INV-03: no account is ever overdrawn, by a payment or by a reversal.
NonNegativeBalances == \A a \in Accounts : balance[a] >= 0

\* INV-04: whatever the episode created is named by the event of its kind,
\* emitted in the step that created it.
AuditComplete ==
  LET runtime == {<<"tx", i>> : i \in DOMAIN transfers \ DOMAIN FixtureTransfers}
                 \cup {<<"led", n>> : n \in RuntimeEntries}
                 \cup {<<"cons", i>> : i \in DOMAIN consents}
                 \cup {<<"chal", i>> : i \in DOMAIN challenges}
                 \cup {<<"ben", i>> : i \in DOMAIN beneficiaries \ DOMAIN FixtureBeneficiaries}
      logged == UNION {{[id |-> i, step |-> e.step, kind |-> e.kind] : i \in e.ids} : e \in audit}
  IN runtime \subseteq {c.id : c \in creation \cap logged}

\* INV-06: no two transfers were made with the same consent.
ConsentSingleUse ==
  \A i, j \in DOMAIN transfers :
    transfers[i].consent = transfers[j].consent => i = j \/ transfers[i].consent = NoId

\* INV-07: no two transfers, reversals and fixture transfers included, share an
\* idempotency key.
IdempotencyUnique ==
  \A i, j \in DOMAIN transfers : transfers[i].idem = transfers[j].idem => i = j

\* INV-08: reversed_by and reversal_of point at each other, and nothing is
\* reversed twice.
ReversalPaired ==
  \A i \in DOMAIN transfers :
    LET t == transfers[i] IN
    /\ t.reversalOf # NoId =>
         t.reversalOf \in DOMAIN transfers /\ transfers[t.reversalOf].reversedBy = i
    /\ t.reversedBy # NoId =>
         t.reversedBy \in DOMAIN transfers /\ transfers[t.reversedBy].reversalOf = i

CheckInvariants ==
  /\ Conservation
  /\ LedgerBalanced
  /\ NonNegativeBalances
  /\ AuditComplete
  /\ ConsentSingleUse
  /\ IdempotencyUnique
  /\ ReversalPaired
==============================================================================
