-------------------------- MODULE ServiceRefinement --------------------------
(***************************************************************************)
(* The environment as an implementation of PaymentService: what the        *)
(* service's state is, told from the world and the latest observation.     *)
(***************************************************************************)
EXTENDS Environment

\* The payments the customer can see; a reversal is no payment of its own.
ServicePayments == {i \in DOMAIN transfers : transfers[i].reversalOf = NoId /\ Visible(i)}
AsPayment(t) ==
  [idem |-> t.idem, from |-> t.from, key |-> t.key, to |-> t.to, amount |-> t.amount]

PaidView == {AsPayment(transfers[i]) : i \in ServicePayments}
UndoneView ==
  {AsPayment(transfers[i]) : i \in {j \in ServicePayments : transfers[j].reversedBy # NoId}}

PermitView ==
  {[id |-> i, from |-> consents[i].from, key |-> consents[i].key, amount |-> consents[i].amount] :
     i \in {j \in DOMAIN consents : consents[j].status = "GRANTED"}}

\* What the client may conclude: a success of create_transfer says the request it made
\* is paid, whoever executed it; a look-up by key says what it found, or that nothing was.
AskedPayment(a) ==
  [idem |-> a.idem, from |-> a.from, key |-> a.key, to |-> AccountOf[a.key], amount |-> a.amount]

SaidView ==
  IF call.tool = "create_transfer" /\ obs.kind = "tool_result"
    THEN [verdict |-> "paid", payment |-> AskedPayment(call.args)]
  ELSE IF call.tool = "get_transfer_by_idempotency_key" /\ obs.kind = "tool_result"
    THEN IF obs.result.transfer.reversalOf # NoId THEN [verdict |-> "silence"]
         ELSE [verdict |-> "paid", payment |-> AsPayment(obs.result.transfer)]
  ELSE IF call.tool = "get_transfer_by_idempotency_key" /\ obs.code = "NOT_FOUND"
    THEN [verdict |-> "not paid", idem |-> call.args.idem]
  ELSE [verdict |-> "silence"]

KnownPayments ==
  {AsPayment(t) : t \in {x \in Range(FixtureTransfers) :
     /\ x.reversalOf = NoId
     /\ x.from \in OwnedAccounts \/ x.to \in OwnedAccounts}}

Service == INSTANCE PaymentService WITH
  Payers <- OwnedAccounts, Directory <- AccountOf, Keys <- IdempotencyKeys,
  Opening <- InitialBalance, Known <- KnownPayments, PermitIds <- 1..MaxSteps,
  Asks <- Policy.consentRequired /\ Policy.enforcement["CONSENT_REQUIRED"] = "HARD",
  paid <- PaidView, undone <- UndoneView, permits <- PermitView, money <- balance,
  said <- SaidView

\* The environment is a payment service: whatever the agent calls, repeats or never
\* hears of, each step makes or undoes one payment as the ideal service would, grants
\* or spends one consent, or says something true (create_transfer, reverse_transfer,
\* request_consent, get_transfer_by_idempotency_key, under every fault plan).
ServiceImplemented == Service!Spec
===============================================================================
