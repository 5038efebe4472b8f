------------------------------ MODULE MCFixture ------------------------------
(***************************************************************************)
(* The fixture the model-checked episodes share: a customer with two       *)
(* accounts, one blocked, somebody else's account, and the outside world,  *)
(* whose account is funded well beyond what the episode can move.          *)
(***************************************************************************)
EXTENDS Guarantees, TLC

FixAccounts == {"main", "closed", "other", "acc_external"}
FixOwned == {"main", "closed"}
FixBlocked == {"closed"}
FixPixKeys == {"ana", "bob", "self"}
FixAccountOf == ("ana" :> "acc_external") @@ ("bob" :> "other") @@ ("self" :> "main")
FixBalance == ("main" :> 10) @@ ("closed" :> 5) @@ ("other" :> 20) @@ ("acc_external" :> 50)

\* No idempotency key of the agent looks like a reversal's.
FixAgentKeys == {"k1", "k2"}
FixRevKey == [i \in 1..(Len(FixtureTransfers) + MaxSteps) |-> "rev-" \o ToString(i)]
FixIdempotencyKeys == FixAgentKeys \cup Range(FixRevKey)

Noon == 12 * Hour
Basic == [level |-> "BASIC", until |-> NoTime]
NoSeed == [a \in FixAccounts |-> << >>]
NoBeneficiaries == << >>
NoHistory == << >>
NoScopes == {}

\* A policy that limits nothing; the runs switch on what they are about.
Permissive(mode) ==
  [perTransferLimit |-> None, dailyLimit |-> None, nightLimit |-> None, kycCap |-> None,
   stepUpThreshold |-> None, nightWindow |-> None, blockedKeys |-> {}, cooling |-> 0,
   consentTtl |-> 0, stepUpTtl |-> 0, reversalWindow |-> 0, consentRequired |-> FALSE,
   enforcement |-> [r \in Rules |-> mode]]

Script(consent, stepUp, vigilant) ==
  [consent |-> consent, stepUp |-> stepUp, vigilant |-> vigilant]

Agrees == {Script(<< "GRANT" >>, << "APPROVE" >>, FALSE)}

NoFaults == {{}}
AFault(tool, ordinal, kind, age) ==
  [tool |-> tool, ordinal |-> ordinal, kind |-> kind, age |-> age]

\* Calls.
Do(tool, args) == [tool |-> tool, args |-> args]
Pay(from, key, amount, idem, consent, memo) ==
  Do("create_transfer", [from |-> from, key |-> key, amount |-> amount, idem |-> idem,
                         consent |-> consent, memo |-> memo])
Consult(from, key, amount) ==
  Do("request_consent", [from |-> from, key |-> key, amount |-> amount])
Check(from, key, amount) ==
  Do("check_transfer_policy", [from |-> from, key |-> key, amount |-> amount])
TakeBack(transfer) == Do("reverse_transfer", [transfer |-> transfer, reason |-> "undo"])
LookupKey(idem) == Do("get_transfer_by_idempotency_key", [idem |-> idem])
Show(transfer) == Do("get_transfer", [transfer |-> transfer])
BalanceOf(account) == Do("get_account_balance", [account |-> account])
ListOf(account, limit) == Do("list_transfers", [account |-> account, limit |-> limit])
Save(key) == Do("add_beneficiary", [key |-> key])
StepUp == Do("request_step_up_auth", NoArgs)
Finished(outcome) == Do("finish", [outcome |-> outcome])
==============================================================================
