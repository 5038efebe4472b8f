-------------------------- MODULE AuthorizationProofs --------------------------
(***************************************************************************)
(* Theorems about what stands behind a payment - the consent it spends,    *)
(* once; the recipients saved before it; the approvals it needs; and the   *)
(* audit trail of all of them - and about what the agent is told: that an  *)
(* error means nothing was done, and that a success and a read are true.   *)
(***************************************************************************)
EXTENDS EnvironmentProofs

(***************************************************************************)
(* The inductive invariant.  A payment's consent was asked for strictly    *)
(* before it because no consent is younger than the clock and a step moves *)
(* the clock before it pays.                                               *)
(***************************************************************************)
ConsentsPast == \A c \in DOMAIN consents : consents[c].created <= now

HistoryKept == Len(FixtureTransfers) <= Len(transfers)

ConsentInv == TypeInv /\ ConsentsPast /\ HistoryKept /\ ConsentBacksTransfer

MustConsent == Policy.consentRequired /\ Enforced("CONSENT_REQUIRED")

\* A consent spent on a transfer, and on it alone.
SpentOn(c, i, x) ==
  /\ c.status = "USED" /\ c.usedBy = i
  /\ <<c.from, c.key, c.amount>> = <<x.from, x.key, x.amount>>
  /\ c.created < x.created /\ x.created < c.expires

AllSpent ==
  \A i \in AgentTransfers :
    transfers[i].consent \in DOMAIN consents
    /\ SpentOn(consents[transfers[i].consent], i, transfers[i])

AllOwned ==
  \A c \in DOMAIN consents : consents[c].status = "USED" =>
    consents[c].usedBy \in AgentTransfers /\ transfers[consents[c].usedBy].consent = c

LEMMA BackingAsParts ==
  ConsentBacksTransfer <=> (MustConsent => AllSpent) /\ AllOwned
BY DEF ConsentBacksTransfer, MustConsent, AllSpent, AllOwned, SpentOn

\* Consents have the domain their length says.
LEMMA ConsentIds ==
  ASSUME TypeInv
  PROVE  /\ Len(consents) \in Nat /\ DOMAIN consents = 1..Len(consents)
         /\ \A c \in 1..Len(consents) : consents[c] \in Consent
<1>1. consents \in Seq(Consent)
  BY DEF TypeInv, TypeOK, WorldTypeOK
<1> QED
  BY <1>1, LenProperties, ElementOfSeq

\* Where consent is enforced, a payment goes through only under a consent that is
\* granted, in time, and for that payment.
LEMMA PaymentHasConsent ==
  ASSUME NEW a, Pays(a)
  PROVE  MustConsent => ConsentHolds(a)
<1> SUFFICES ASSUME MustConsent PROVE ConsentHolds(a)
  OBVIOUS
<1>1. InMode(RequestFindings(a), "HARD") = {}
  BY CreateGuards DEF Pays
<1>2. "CONSENT_REQUIRED" \in Rules
  <2>1. 8 \in DOMAIN Catalog /\ Catalog[8] = "CONSENT_REQUIRED"
    BY DEF Catalog
  <2> QED
    BY <2>1 DEF Rules, Range
<1>3. Policy.enforcement["CONSENT_REQUIRED"] = "HARD"
  BY DEF MustConsent, Enforced
<1>4. "CONSENT_REQUIRED" \notin RequestFindings(a)
  BY <1>1, <1>3 DEF InMode
<1>5. ~Breaks("CONSENT_REQUIRED", a.from, a.key, a.amount, a.consent, now')
  BY <1>2, <1>4 DEF RequestFindings, Findings
<1> QED
  BY <1>5 DEF Breaks, ConsentHolds, MustConsent

LEMMA ConsentHolding ==
  ASSUME NEW a, ConsentHolds(a)
  PROVE  /\ a.consent \in DOMAIN consents
         /\ consents[a.consent].status = "GRANTED"
         /\ ~(consents[a.consent].expires <= now')
         /\ <<consents[a.consent].from, consents[a.consent].key, consents[a.consent].amount>>
              = <<a.from, a.key, a.amount>>
BY DEF ConsentHolds, ConsentValidity

\* What a payment does to the consents: it marks the one it spends, if any.
LEMMA PaymentSpends ==
  ASSUME TypeInv, NEW a, Pays(a)
  PROVE  /\ DOMAIN consents' = DOMAIN consents
         /\ \A c \in DOMAIN consents :
              c # a.consent \/ ~ConsentHolds(a) => consents'[c] = consents[c]
         /\ ConsentHolds(a) =>
              /\ consents'[a.consent].status = "USED"
              /\ consents'[a.consent].usedBy = Len(transfers) + 1
              /\ consents'[a.consent].from = consents[a.consent].from
              /\ consents'[a.consent].key = consents[a.consent].key
              /\ consents'[a.consent].amount = consents[a.consent].amount
              /\ consents'[a.consent].created = consents[a.consent].created
              /\ consents'[a.consent].expires = consents[a.consent].expires
<1> DEFINE k == a.consent
           spent == [consents[k] EXCEPT !.status = "USED", !.usedBy = NextTransferId]
<1>1. consents' = IF ConsentHolds(a)
                  THEN [consents EXCEPT ![k].status = "USED", ![k].usedBy = NextTransferId]
                  ELSE consents
  BY DEF Pays, ExecuteTransfer
<1>2. CASE ~ConsentHolds(a)
  BY <1>1, <1>2
<1>3. CASE ConsentHolds(a)
  <2>1. k \in DOMAIN consents /\ consents[k] \in Consent
    BY <1>3, ConsentIds, ConsentHolding
  <2>2. consents' = [consents EXCEPT ![k] = spent]
    BY <1>1, <1>3
  <2>3. /\ spent.status = "USED" /\ spent.usedBy = Len(transfers) + 1
        /\ spent.from = consents[k].from /\ spent.key = consents[k].key
        /\ spent.amount = consents[k].amount
        /\ spent.created = consents[k].created /\ spent.expires = consents[k].expires
    BY <2>1 DEF Consent, NextTransferId
  <2> HIDE DEF spent
  <2>4. /\ DOMAIN consents' = DOMAIN consents /\ consents'[k] = spent
        /\ \A c \in DOMAIN consents : c # k => consents'[c] = consents[c]
    BY <2>1, <2>2
  <2> QED
    BY <1>3, <2>3, <2>4
<1> QED
  BY <1>2, <1>3

LEMMA PayKeepsConsentInv ==
  ASSUME ConsentInv, TypeInv', Entered, now' > now, NEW a, Pays(a)
  PROVE  ConsentInv'
<1> DEFINE n == Len(transfers)
           r == Len(transfers) + 1
<1>1. /\ TypeInv /\ ConsentsPast /\ HistoryKept
      /\ MustConsent => AllSpent
      /\ AllOwned
  BY BackingAsParts DEF ConsentInv
<1>2. /\ n \in Nat /\ DOMAIN transfers = 1..n /\ now \in Nat /\ now' \in Nat
      /\ Len(FixtureTransfers) \in Nat /\ Len(FixtureTransfers) <= n
  <2>1. now \in Nat /\ now' \in Nat
    BY <1>1 DEF Entered, TypeInv, TypeOK, WorldTypeOK
  <2>2. FixtureTransfers \in Seq(Transfer)
    BY WorldAssumption
  <2> QED
    BY <1>1, <2>1, <2>2, TransferIds, LenProperties DEF HistoryKept
<1>3. /\ Len(transfers') = r
      /\ transfers'[r] = TransferOf(a)
      /\ \A i \in 1..n : transfers'[i] = transfers[i]
      /\ transfers' \in Seq(Transfer)
  BY PaymentAppended
<1>4. DOMAIN transfers' = 1..r
  BY <1>3, LenProperties
<1>5. /\ transfers'[r].reversalOf = NoId /\ transfers'[r].consent = a.consent
      /\ transfers'[r].created = now'
      /\ <<transfers'[r].from, transfers'[r].key, transfers'[r].amount>>
           = <<a.from, a.key, a.amount>>
  BY <1>3 DEF TransferOf
<1>6. AgentTransfers' = AgentTransfers \cup {r}
  BY <1>2, <1>3, <1>4, <1>5 DEF AgentTransfers
<1>7. /\ \A c \in DOMAIN consents : c \in Nat /\ consents[c] \in Consent
      /\ DOMAIN consents' = DOMAIN consents
      /\ \A c \in DOMAIN consents :
           c # a.consent \/ ~ConsentHolds(a) => consents'[c] = consents[c]
      /\ ConsentHolds(a) =>
           /\ consents'[a.consent].status = "USED"
           /\ consents'[a.consent].usedBy = r
           /\ consents'[a.consent].from = consents[a.consent].from
           /\ consents'[a.consent].key = consents[a.consent].key
           /\ consents'[a.consent].amount = consents[a.consent].amount
           /\ consents'[a.consent].created = consents[a.consent].created
           /\ consents'[a.consent].expires = consents[a.consent].expires
  BY <1>1, PaymentSpends, ConsentIds
<1>8. ConsentsPast'
  <2>1. ASSUME NEW c \in DOMAIN consents
        PROVE  consents'[c].created = consents[c].created
    BY <1>7
  <2>2. \A c \in DOMAIN consents : consents[c].created \in Int /\ consents[c].created <= now
    BY <1>1, <1>7 DEF ConsentsPast, Consent
  <2> QED
    BY <1>2, <1>7, <2>1, <2>2 DEF ConsentsPast
<1>9. HistoryKept'
  BY <1>2, <1>3 DEF HistoryKept
<1>10. MustConsent => AllSpent'
  <2> SUFFICES ASSUME MustConsent PROVE AllSpent'
    OBVIOUS
  <2>1. ConsentHolds(a)
    BY PaymentHasConsent
  <2>2. ASSUME NEW i \in AgentTransfers
        PROVE  /\ transfers'[i].consent \in DOMAIN consents'
               /\ SpentOn(consents'[transfers'[i].consent], i, transfers'[i])
    <3>1. transfers'[i] = transfers[i]
      BY <1>2, <1>3 DEF AgentTransfers
    <3>2. transfers[i].consent \in DOMAIN consents
          /\ SpentOn(consents[transfers[i].consent], i, transfers[i])
      BY <1>1 DEF AllSpent
    <3>3. transfers[i].consent # a.consent
      BY <2>1, <3>2, ConsentHolding DEF SpentOn
    <3> QED
      BY <1>7, <3>1, <3>2, <3>3
  <2>3. /\ transfers'[r].consent \in DOMAIN consents'
        /\ SpentOn(consents'[transfers'[r].consent], r, transfers'[r])
    <3>1. /\ a.consent \in DOMAIN consents /\ ~(consents[a.consent].expires <= now')
          /\ <<consents[a.consent].from, consents[a.consent].key, consents[a.consent].amount>>
               = <<a.from, a.key, a.amount>>
      BY <2>1, ConsentHolding
    <3>2. consents[a.consent].created <= now /\ consents[a.consent] \in Consent
      BY <1>1, <1>7, <3>1 DEF ConsentsPast
    <3>3. consents[a.consent].created < now' /\ now' < consents[a.consent].expires
      BY <1>2, <3>1, <3>2 DEF Consent
    <3> QED
      BY <1>5, <1>7, <2>1, <3>1, <3>3 DEF SpentOn
  <2> QED
    BY <1>6, <2>2, <2>3 DEF AllSpent
<1>11. AllOwned'
  <2> SUFFICES ASSUME NEW c \in DOMAIN consents, consents'[c].status = "USED"
               PROVE  /\ consents'[c].usedBy \in AgentTransfers'
                      /\ transfers'[consents'[c].usedBy].consent = c
    BY <1>7 DEF AllOwned
  <2>1. CASE c = a.consent /\ ConsentHolds(a)
    BY <1>5, <1>6, <1>7, <2>1
  <2>2. CASE c # a.consent \/ ~ConsentHolds(a)
    <3>1. consents'[c] = consents[c]
      BY <1>7, <2>2
    <3>2. consents[c].usedBy \in AgentTransfers /\ transfers[consents[c].usedBy].consent = c
      BY <1>1, <3>1 DEF AllOwned
    <3>3. transfers'[consents[c].usedBy] = transfers[consents[c].usedBy]
      BY <1>2, <1>3, <3>2 DEF AgentTransfers
    <3> QED
      BY <1>6, <3>1, <3>2, <3>3
  <2> QED
    BY <2>1, <2>2
<1>12. MustConsent' <=> MustConsent
  BY DEF MustConsent, Enforced
<1>13. ConsentBacksTransfer'
  BY <1>10, <1>11, <1>12 DEF ConsentBacksTransfer, MustConsent, AllSpent, AllOwned, SpentOn
<1> QED
  BY <1>8, <1>9, <1>13 DEF ConsentInv

\* A new consent is spent on nothing yet.
LEMMA AskKeepsConsentInv ==
  ASSUME ConsentInv, TypeInv', now' > now, NEW a, NEW status, Asks(a, status)
  PROVE  ConsentInv'
<1> DEFINE n == Len(consents)
           asked == [from |-> a.from, key |-> a.key, amount |-> a.amount, status |-> status,
                     created |-> now', expires |-> now' + Policy.consentTtl, usedBy |-> NoId]
<1>1. /\ TypeInv /\ ConsentsPast /\ HistoryKept
      /\ MustConsent => AllSpent
      /\ AllOwned
  BY BackingAsParts DEF ConsentInv
<1>2. /\ n \in Nat /\ DOMAIN consents = 1..n /\ DOMAIN consents' = 1..Len(consents')
      /\ now \in Nat /\ now' \in Nat
      /\ \A c \in 1..n : consents[c] \in Consent
  <2>1. now \in Nat /\ now' \in Nat /\ consents' \in Seq(Consent)
    BY <1>1 DEF TypeInv, TypeOK, WorldTypeOK
  <2> QED
    BY <1>1, <2>1, ConsentIds, LenProperties
<1>3. /\ UNCHANGED transfers /\ consents' = Append(consents, asked)
      /\ status \in {"PENDING", "GRANTED", "DENIED"}
  BY DEF Asks
<1>4. asked.status # "USED" /\ asked.created = now'
  BY <1>3
<1> HIDE DEF asked
<1>5. /\ Len(consents') = n + 1
      /\ \A c \in 1..n : consents'[c] = consents[c]
      /\ consents'[n + 1] = asked
  <2>1. consents \in Seq(Consent) /\ consents' \in Seq(Consent)
    BY <1>1 DEF TypeInv, TypeOK, WorldTypeOK
  <2> QED
    BY <1>2, <1>3, <2>1, AppendProperties
<1>6. \A c \in 1..(n + 1) : c = n + 1 \/ c \in 1..n
  BY <1>2
<1>7. ConsentsPast'
  <2>1. \A c \in 1..n : consents[c].created \in Int /\ consents[c].created <= now
    BY <1>1, <1>2 DEF ConsentsPast, Consent
  <2> QED
    BY <1>2, <1>4, <1>5, <1>6, <2>1 DEF ConsentsPast
<1>8. HistoryKept'
  BY <1>1, <1>3 DEF HistoryKept
<1>9. AgentTransfers' = AgentTransfers
  BY <1>3 DEF AgentTransfers
<1>10. MustConsent => AllSpent'
  <2> SUFFICES ASSUME MustConsent, NEW i \in AgentTransfers
               PROVE  /\ transfers[i].consent \in DOMAIN consents'
                      /\ SpentOn(consents'[transfers[i].consent], i, transfers[i])
    BY <1>3, <1>9 DEF AllSpent
  <2>1. transfers[i].consent \in 1..n
        /\ SpentOn(consents[transfers[i].consent], i, transfers[i])
    BY <1>1, <1>2 DEF AllSpent
  <2> QED
    BY <1>2, <1>5, <2>1
<1>11. AllOwned'
  <2> SUFFICES ASSUME NEW c \in DOMAIN consents', consents'[c].status = "USED"
               PROVE  /\ consents'[c].usedBy \in AgentTransfers
                      /\ transfers[consents'[c].usedBy].consent = c
    BY <1>3, <1>9 DEF AllOwned
  <2>1. c \in 1..n /\ consents'[c] = consents[c]
    BY <1>2, <1>4, <1>5, <1>6
  <2> QED
    BY <1>1, <1>2, <2>1 DEF AllOwned
<1>12. ConsentBacksTransfer'
  BY <1>10, <1>11 DEF ConsentBacksTransfer, MustConsent, AllSpent, AllOwned, SpentOn
<1> QED
  BY <1>7, <1>8, <1>12 DEF ConsentInv

\* A reversal spends no consent and leaves what a payment says of its own.
LEMMA ReturnKeepsConsentInv ==
  ASSUME ConsentInv, TypeInv', Entered, TransfersBounded, StepsBounded, stepIndex \in Nat,
         now' > now, NEW a, Returns(a)
  PROVE  ConsentInv'
<1> DEFINE n == Len(transfers)
           r == Len(transfers) + 1
           o == a.transfer
<1>1. /\ TypeInv /\ ConsentsPast /\ HistoryKept
      /\ MustConsent => AllSpent
      /\ AllOwned
  BY BackingAsParts DEF ConsentInv
<1>2. /\ n \in Nat /\ DOMAIN transfers = 1..n
      /\ \A i \in 1..n : transfers[i] \in Transfer
      /\ Len(FixtureTransfers) \in Nat /\ Len(FixtureTransfers) <= n
      /\ now \in Nat /\ now' \in Nat
  <2>1. now \in Nat /\ now' \in Nat
    BY <1>1 DEF TypeInv, TypeOK, WorldTypeOK
  <2>2. FixtureTransfers \in Seq(Transfer)
    BY WorldAssumption
  <2> QED
    BY <1>1, <2>1, <2>2, TransferIds, LenProperties DEF HistoryKept
<1>3. consents' = consents
  BY DEF Returns, ExecuteReversal, approvalVars
<1>4. /\ Len(transfers') = r /\ transfers' \in Seq(Transfer)
      /\ transfers'[r] = ReversalOf(o, a.reason)
      /\ o \in 1..n
  BY ReversalAppended
<1>5. \A i \in 1..n :
        /\ <<transfers'[i].from, transfers'[i].key, transfers'[i].amount>>
             = <<transfers[i].from, transfers[i].key, transfers[i].amount>>
        /\ transfers'[i].consent = transfers[i].consent
        /\ transfers'[i].created = transfers[i].created
        /\ transfers'[i].reversalOf = transfers[i].reversalOf
  BY <1>1, ReversalKeeps
<1>6. transfers'[r].reversalOf # NoId /\ Len(transfers') = r
  <2>1. ReversalOf(o, a.reason).reversalOf = o
    BY DEF ReversalOf
  <2> QED
    BY <1>2, <1>4, <2>1 DEF NoId
<1>7. DOMAIN transfers' = 1..r
  BY <1>4, LenProperties
<1> HIDE DEF o
<1>8. AgentTransfers' = AgentTransfers
  <2>1. \A i \in 1..r : i = r \/ i \in 1..n
    BY <1>2
  <2> QED
    BY <1>2, <1>5, <1>6, <1>7, <2>1 DEF AgentTransfers
<1>9. AgentTransfers \subseteq 1..n
  BY <1>2 DEF AgentTransfers
<1>10. MustConsent => AllSpent'
  BY <1>1, <1>3, <1>5, <1>8, <1>9 DEF AllSpent, SpentOn
<1>11. AllOwned'
  BY <1>1, <1>3, <1>5, <1>8, <1>9 DEF AllOwned
<1>12. ConsentBacksTransfer'
  BY <1>10, <1>11 DEF ConsentBacksTransfer, MustConsent, AllSpent, AllOwned, SpentOn
<1>13. ConsentsPast'
  <2>1. \A c \in DOMAIN consents : consents[c].created \in Int /\ consents[c].created <= now
    BY <1>1, ConsentIds DEF ConsentsPast, Consent
  <2> QED
    BY <1>2, <1>3, <2>1 DEF ConsentsPast
<1>14. HistoryKept'
  BY <1>2, <1>6 DEF HistoryKept
<1> QED
  BY <1>12, <1>13, <1>14 DEF ConsentInv

LEMMA ConsentInvInit == Init => ConsentInv
<1> SUFFICES ASSUME Init PROVE ConsentInv
  OBVIOUS
<1>1. TypeInv
  BY TypeInvInit
<1>2. consents = << >> /\ transfers = FixtureTransfers
  BY DEF Init, FromFixture
<1>3. Len(FixtureTransfers) \in Nat /\ DOMAIN transfers = 1..Len(FixtureTransfers)
  BY <1>2, WorldAssumption, LenProperties
<1>4. ConsentsPast /\ HistoryKept /\ AllOwned
  BY <1>2, <1>3 DEF ConsentsPast, HistoryKept, AllOwned
<1>5. AgentTransfers = {}
  BY <1>3 DEF AgentTransfers
<1> QED
  BY <1>1, <1>4, <1>5 DEF ConsentInv, ConsentBacksTransfer, AllOwned

LEMMA ConsentInvStep == ConsentInv /\ [Next]_vars => ConsentInv'
<1> SUFFICES ASSUME ConsentInv, [Next]_vars PROVE ConsentInv'
  OBVIOUS
<1>1. TypeInv /\ TypeInv'
  BY TypeInvStep DEF ConsentInv
<1>2. CASE UNCHANGED <<transfers, consents>> /\ now' >= now
  <2>1. now \in Nat /\ now' \in Nat
    BY <1>1 DEF TypeInv, TypeOK, WorldTypeOK
  <2>2. \A c \in DOMAIN consents : consents[c].created \in Int /\ consents[c].created <= now
    BY <1>1, ConsentIds DEF ConsentInv, ConsentsPast, Consent
  <2>3. ConsentsPast'
    BY <1>2, <2>1, <2>2 DEF ConsentsPast
  <2>4. HistoryKept'
    BY <1>2 DEF ConsentInv, HistoryKept
  <2>5. ConsentBacksTransfer'
    BY <1>2 DEF ConsentInv, ConsentBacksTransfer, AgentTransfers, Enforced
  <2> QED
    BY <1>1, <2>3, <2>4, <2>5 DEF ConsentInv
<1> QED
  BY <1>1, <1>2, StepEffects, PayKeepsConsentInv, AskKeepsConsentInv, ReturnKeepsConsentInv

\* For every policy that enforces consent, every user and every fault plan: a payment
\* spent one consent the user granted for exactly that payment before it was made and
\* while it was valid, and a spent consent paid for that transfer alone (request_consent,
\* create_transfer, reverse_transfer).
THEOREM ConsentBacks == Spec => []ConsentBacksTransfer
<1>1. ConsentInv => ConsentBacksTransfer
  BY DEF ConsentInv
<1> QED
  BY <1>1, ConsentInvInit, ConsentInvStep, PTL DEF Spec

\* What ConsentLifecycle allows of one step.
ConsentStep ==
  /\ DOMAIN consents \subseteq DOMAIN consents'
  /\ \A c \in DOMAIN consents : consents'[c] # consents[c] =>
       /\ consents[c].status = "GRANTED"
       /\ consents'[c] = [consents[c] EXCEPT !.status = "USED", !.usedBy = Len(transfers')]
       /\ Len(transfers') > Len(transfers)
       /\ transfers'[Len(transfers')].consent = c

LEMMA PayKeepsLife ==
  ASSUME TypeInv, Entered, NEW a, Pays(a)
  PROVE  ConsentStep
<1> DEFINE k == a.consent
           r == Len(transfers) + 1
           spent == [consents[k] EXCEPT !.status = "USED", !.usedBy = r]
<1>1. /\ Len(transfers') = r /\ transfers'[r].consent = k /\ r > Len(transfers)
      /\ NextTransferId = r
  <2>1. TransferOf(a).consent = k
    BY DEF TransferOf
  <2> QED
    BY <2>1, PaymentAppended, TransferIds DEF NextTransferId
<1>2. consents' = IF ConsentHolds(a)
                  THEN [consents EXCEPT ![k].status = "USED", ![k].usedBy = r]
                  ELSE consents
  BY <1>1 DEF Pays, ExecuteTransfer
<1>3. CASE ~ConsentHolds(a)
  BY <1>2, <1>3 DEF ConsentStep
<1>4. CASE ConsentHolds(a)
  <2>1. k \in DOMAIN consents /\ consents[k].status = "GRANTED"
    BY <1>4, ConsentHolding
  <2>2. consents' = [consents EXCEPT ![k] = spent]
    BY <1>2, <1>4
  <2>3. /\ DOMAIN consents' = DOMAIN consents /\ consents'[k] = spent
        /\ \A c \in DOMAIN consents : c # k => consents'[c] = consents[c]
    <3> HIDE DEF spent
    <3> QED
      BY <2>1, <2>2
  <2> QED
    BY <1>1, <2>1, <2>3 DEF ConsentStep
<1> QED
  BY <1>3, <1>4

LEMMA AskKeepsLife ==
  ASSUME TypeInv, TypeInv', NEW a, NEW status, Asks(a, status)
  PROVE  ConsentStep
<1> DEFINE asked == [from |-> a.from, key |-> a.key, amount |-> a.amount, status |-> status,
                     created |-> now', expires |-> now' + Policy.consentTtl, usedBy |-> NoId]
<1>1. consents' = Append(consents, asked) /\ consents \in Seq(Consent)
  BY DEF Asks, TypeInv, TypeOK, WorldTypeOK
<1> HIDE DEF asked
<1>2. Len(consents) \in Nat /\ DOMAIN consents = 1..Len(consents)
  BY ConsentIds
<1>3. consents' \in Seq(Consent)
  BY DEF TypeInv, TypeOK, WorldTypeOK
<1>4. /\ Len(consents') = Len(consents) + 1
      /\ \A c \in 1..Len(consents) : consents'[c] = consents[c]
  BY <1>1, <1>2, <1>3, AppendProperties
<1>5. DOMAIN consents' = 1..Len(consents')
  BY <1>3, LenProperties
<1>6. DOMAIN consents \subseteq DOMAIN consents'
  BY <1>2, <1>4, <1>5
<1>7. \A c \in DOMAIN consents : consents'[c] = consents[c]
  BY <1>2, <1>4
<1> QED
  BY <1>6, <1>7 DEF ConsentStep

\* For every policy, user and fault plan: no step changes a consent's scope, expiry or
\* answer; the one change is its spending, in the step that makes the transfer it names
\* (request_consent, create_transfer).
THEOREM ConsentsLive == Spec => ConsentLifecycle
<1>1. TypeInv /\ [Next]_vars => [ConsentStep]_vars
  <2> SUFFICES ASSUME TypeInv, [Next]_vars PROVE ConsentStep
    OBVIOUS
  <2>1. CASE UNCHANGED <<transfers, consents>>
    BY <2>1 DEF ConsentStep
  <2>2. ASSUME NEW a, Returns(a)
        PROVE  ConsentStep
    <3>1. consents' = consents
      BY <2>2 DEF Returns, ExecuteReversal, approvalVars
    <3> QED
      BY <3>1 DEF ConsentStep
  <2> QED
    BY <2>1, <2>2, TypeInvStep, StepEffects, PayKeepsLife, AskKeepsLife
<1>2. Spec => [][ConsentStep]_vars
  BY <1>1, TypeInvInit, TypeInvStep, PTL DEF Spec
<1> QED
  BY <1>2 DEF ConsentLifecycle, ConsentStep

(***************************************************************************)
(* One transfer per consent.  Without enforcement a consent may be named   *)
(* by many transfers (SharedConsent.cfg), so the policy is assumed to      *)
(* enforce it, and the fixture's transfers to name none.                   *)
(***************************************************************************)
HistoryUnspent == \A i \in DOMAIN FixtureTransfers : FixtureTransfers[i].consent = NoId

OthersUnspent == \A i \in DOMAIN transfers \ AgentTransfers : transfers[i].consent = NoId

SingleInv == ConsentInv /\ OthersUnspent

LEMMA OthersUnspentStep ==
  ASSUME ConsentInv, OthersUnspent, [Next]_vars
  PROVE  OthersUnspent'
<1> DEFINE n == Len(transfers)
           r == Len(transfers) + 1
<1>1. /\ n \in Nat /\ DOMAIN transfers = 1..n
      /\ Len(FixtureTransfers) \in Nat /\ Len(FixtureTransfers) <= n
      /\ \A i \in 1..n : transfers[i] \in Transfer
  <2>1. FixtureTransfers \in Seq(Transfer)
    BY WorldAssumption
  <2> QED
    BY <2>1, TransferIds, LenProperties DEF ConsentInv, HistoryKept
<1>2. CASE UNCHANGED transfers
  BY <1>2 DEF OthersUnspent, AgentTransfers
<1>3. ASSUME NEW new, Len(transfers') = r, transfers' \in Seq(Transfer), transfers'[r] = new,
             new.reversalOf = NoId \/ new.consent = NoId,
             \A i \in 1..n : /\ transfers'[i].consent = transfers[i].consent
                             /\ transfers'[i].reversalOf = transfers[i].reversalOf
      PROVE  OthersUnspent'
  <2>1. DOMAIN transfers' = 1..r
    BY <1>3, LenProperties
  <2>2. \A i \in 1..r : i = r \/ i \in 1..n
    BY <1>1
  <2> QED
    BY <1>1, <1>3, <2>1, <2>2 DEF OthersUnspent, AgentTransfers
<1>4. ASSUME Entered, NEW a, Pays(a)
      PROVE  OthersUnspent'
  <2>1. TransferOf(a).reversalOf = NoId
    BY DEF TransferOf
  <2> QED
    BY <1>3, <1>4, <2>1, PaymentAppended
<1>5. ASSUME Entered, TransfersBounded, StepsBounded, stepIndex \in Nat, NEW a, Returns(a)
      PROVE  OthersUnspent'
  <2>1. ReversalOf(a.transfer, a.reason).consent = NoId
    BY DEF ReversalOf
  <2>2. \A i \in 1..n : /\ transfers'[i].consent = transfers[i].consent
                        /\ transfers'[i].reversalOf = transfers[i].reversalOf
    BY <1>5, ReversalKeeps DEF ConsentInv
  <2>3. /\ Len(transfers') = r /\ transfers' \in Seq(Transfer)
        /\ transfers'[r] = ReversalOf(a.transfer, a.reason)
    BY <1>5, ReversalAppended
  <2> QED
    BY <1>3, <2>1, <2>2, <2>3
<1> QED
  BY <1>2, <1>4, <1>5, StepEffects DEF ConsentInv, Asks

\* INV-06, for every episode whose policy enforces consent and whose history names none:
\* no consent pays for two transfers, whatever the agent repeats (create_transfer).
THEOREM ConsentsPayOnce ==
  MustConsent /\ HistoryUnspent => (Spec => []ConsentSingleUse)
<1> SUFFICES ASSUME MustConsent, HistoryUnspent PROVE Spec => []ConsentSingleUse
  OBVIOUS
<1>1. Init => SingleInv
  BY ConsentInvInit DEF Init, FromFixture, HistoryUnspent, SingleInv, OthersUnspent
<1>2. SingleInv /\ [Next]_vars => SingleInv'
  BY ConsentInvStep, OthersUnspentStep DEF SingleInv
<1>3. SingleInv => ConsentSingleUse
  <2> SUFFICES ASSUME SingleInv, NEW i \in DOMAIN transfers, NEW j \in DOMAIN transfers,
                      transfers[i].consent = transfers[j].consent,
                      transfers[i].consent # NoId
               PROVE  i = j
    BY DEF ConsentSingleUse
  <2>1. i \in AgentTransfers /\ j \in AgentTransfers
    BY DEF SingleInv, OthersUnspent
  <2>2. AllSpent
    BY BackingAsParts DEF SingleInv, ConsentInv
  <2> QED
    BY <2>1, <2>2 DEF AllSpent, SpentOn
<1> QED
  BY <1>1, <1>2, <1>3, PTL DEF Spec

(***************************************************************************)
(* What a step does to the payments of the agent.                          *)
(***************************************************************************)

\* A payment that goes through breaks no rule that is enforced.
LEMMA RulePassed ==
  ASSUME NEW a, Pays(a), NEW rule \in Rules, Enforced(rule)
  PROVE  ~Breaks(rule, a.from, a.key, a.amount, a.consent, now')
<1>1. InMode(RequestFindings(a), "HARD") = {}
  BY CreateGuards DEF Pays
<1>2. rule \notin RequestFindings(a)
  BY <1>1 DEF InMode, Enforced
<1> QED
  BY <1>2 DEF RequestFindings, Findings

LEMMA RulesNamed ==
  /\ "DAILY_LIMIT" \in Rules
  /\ "NEW_BENEFICIARY_COOLING" \in Rules
  /\ "STEP_UP_REQUIRED" \in Rules
<1>1. /\ 2 \in DOMAIN Catalog /\ Catalog[2] = "DAILY_LIMIT"
      /\ 6 \in DOMAIN Catalog /\ Catalog[6] = "NEW_BENEFICIARY_COOLING"
      /\ 7 \in DOMAIN Catalog /\ Catalog[7] = "STEP_UP_REQUIRED"
  BY DEF Catalog
<1> QED
  BY <1>1 DEF Rules, Range

LEMMA AgentPays ==
  ASSUME TypeInv, HistoryKept, Entered, NEW a, Pays(a)
  PROVE  LET r == Len(transfers) + 1 IN
         /\ AgentTransfers' = AgentTransfers \cup {r}
         /\ AgentTransfers \subseteq 1..Len(transfers) /\ r \notin 1..Len(transfers)
         /\ \A i \in AgentTransfers : transfers'[i] = transfers[i]
         /\ transfers'[r] = TransferOf(a)
         /\ DOMAIN transfers' = 1..r
<1> DEFINE n == Len(transfers)
           r == Len(transfers) + 1
<1>1. /\ n \in Nat /\ DOMAIN transfers = 1..n
      /\ Len(FixtureTransfers) \in Nat /\ Len(FixtureTransfers) <= n
  BY WorldAssumption, TransferIds, LenProperties DEF HistoryKept
<1>2. /\ Len(transfers') = r /\ transfers' \in Seq(Transfer)
      /\ transfers'[r] = TransferOf(a)
      /\ \A i \in 1..n : transfers'[i] = transfers[i]
  BY PaymentAppended
<1>3. DOMAIN transfers' = 1..r
  BY <1>2, LenProperties
<1>4. transfers'[r].reversalOf = NoId
  BY <1>2 DEF TransferOf
<1>5. AgentTransfers' = AgentTransfers \cup {r}
  BY <1>1, <1>2, <1>3, <1>4 DEF AgentTransfers
<1>6. AgentTransfers \subseteq 1..n /\ r \notin 1..n
  BY <1>1 DEF AgentTransfers
<1> QED
  BY <1>2, <1>3, <1>5, <1>6

LEMMA AgentReturns ==
  ASSUME TypeInv, Entered, TransfersBounded, StepsBounded, stepIndex \in Nat,
         NEW a, Returns(a)
  PROVE  /\ AgentTransfers' = AgentTransfers
         /\ \A i \in AgentTransfers :
              LET y == transfers'[i]
                  x == transfers[i]
              IN /\ y.from = x.from /\ y.key = x.key /\ y.amount = x.amount
                 /\ y.created = x.created
         /\ DOMAIN transfers' = 1..(Len(transfers) + 1)
<1> DEFINE n == Len(transfers)
           r == Len(transfers) + 1
<1>1. n \in Nat /\ DOMAIN transfers = 1..n
  BY TransferIds
<1>2. /\ Len(transfers') = r /\ transfers' \in Seq(Transfer)
      /\ transfers'[r] = ReversalOf(a.transfer, a.reason)
      /\ a.transfer \in 1..n
  BY ReversalAppended
<1>3. DOMAIN transfers' = 1..r
  BY <1>2, LenProperties
<1>4. transfers'[r].reversalOf # NoId
  <2>1. ReversalOf(a.transfer, a.reason).reversalOf = a.transfer
    BY DEF ReversalOf
  <2> QED
    BY <1>1, <1>2, <2>1 DEF NoId
<1>5. \A i \in 1..n :
        LET y == transfers'[i]
            x == transfers[i]
        IN /\ y.from = x.from /\ y.key = x.key /\ y.amount = x.amount
           /\ y.created = x.created /\ y.reversalOf = x.reversalOf
  BY ReversalKeeps
<1>6. \A i \in 1..r : i = r \/ i \in 1..n
  BY <1>1
<1> QED
  BY <1>1, <1>3, <1>4, <1>5, <1>6 DEF AgentTransfers

(***************************************************************************)
(* Recipients.  A saved recipient stays as it was saved.                   *)
(***************************************************************************)
CoolingInv == ConsentInv /\ CoolingRespected

MustCool == Policy.cooling > 0 /\ Enforced("NEW_BENEFICIARY_COOLING")

\* The saved recipient that lets a payment to a key go out at a time.
Cooled(b, key, time) == b.key = key /\ (b.trusted \/ time >= b.created + Policy.cooling)

LEMMA CoolingAsParts ==
  CoolingRespected <=>
    (MustCool => \A i \in AgentTransfers : \E b \in Range(beneficiaries) :
                   Cooled(b, transfers[i].key, transfers[i].created))
BY DEF CoolingRespected, MustCool, Cooled

LEMMA BeneficiarySaved ==
  ASSUME TypeInv, Entered, NEW a, Saves(a)
  PROVE  /\ Len(beneficiaries) \in Nat /\ DOMAIN beneficiaries = 1..Len(beneficiaries)
         /\ DOMAIN beneficiaries' = 1..(Len(beneficiaries) + 1)
         /\ Range(beneficiaries) \subseteq Range(beneficiaries')
         /\ UNCHANGED <<transfers, moneyVars, approvalVars>>
         /\ creation' = creation \cup CreatedAt(stepIndex', "BENEFICIARY_ADDED",
                                                {<<"ben", Len(beneficiaries) + 1>>})
         /\ audit' = audit \cup {Event(stepIndex', "BENEFICIARY_ADDED",
                                       {<<"ben", Len(beneficiaries) + 1>>}, None)}
<1> DEFINE b == [key |-> a.key, created |-> now', trusted |-> FALSE]
           m == Len(beneficiaries)
<1>1. /\ beneficiaries' = Append(beneficiaries, b)
      /\ UNCHANGED <<moneyVars, approvalVars>>
      /\ creation' = creation \cup CreatedAt(stepIndex', "BENEFICIARY_ADDED",
                                             {<<"ben", m + 1>>})
      /\ audit' = audit \cup {Event(stepIndex', "BENEFICIARY_ADDED",
                                    {<<"ben", m + 1>>}, None)}
  BY DEF Saves, AddBeneficiary
<1>2. beneficiaries \in Seq(Beneficiary) /\ b \in Beneficiary
  BY DEF TypeInv, TypeOK, WorldTypeOK, Beneficiary, Entered, Saves
<1> HIDE DEF b
<1>3. /\ m \in Nat /\ DOMAIN beneficiaries = 1..m /\ DOMAIN beneficiaries' = 1..(m + 1)
      /\ \A j \in 1..m : beneficiaries'[j] = beneficiaries[j]
  BY <1>1, <1>2, AppendProperties, LenProperties
<1>4. \A j \in 1..m : j \in 1..(m + 1)
  BY <1>3
<1>5. Range(beneficiaries) \subseteq Range(beneficiaries')
  BY <1>3, <1>4 DEF Range
<1> QED
  BY <1>1, <1>3, <1>5 DEF moneyVars

LEMMA CoolingStep ==
  ASSUME CoolingInv, [Next]_vars
  PROVE  CoolingInv'
<1>1. TypeInv /\ HistoryKept /\ ConsentInv'
  BY ConsentInvStep DEF CoolingInv, ConsentInv
<1>2. SUFFICES ASSUME MustCool
               PROVE  \A i \in AgentTransfers' : \E b \in Range(beneficiaries') :
                        Cooled(b, transfers'[i].key, transfers'[i].created)
  <2>1. MustCool' <=> MustCool
    BY DEF MustCool, Enforced
  <2> QED
    BY <1>1, <2>1 DEF CoolingInv, CoolingRespected, MustCool, Cooled
<1>3. \A i \in AgentTransfers : \E b \in Range(beneficiaries) :
        Cooled(b, transfers[i].key, transfers[i].created)
  BY <1>2, CoolingAsParts DEF CoolingInv
<1>4. CASE UNCHANGED <<transfers, beneficiaries>>
  BY <1>3, <1>4 DEF AgentTransfers
<1>5. ASSUME Entered, NEW a, Pays(a)
      PROVE  \A i \in AgentTransfers' : \E b \in Range(beneficiaries') :
               Cooled(b, transfers'[i].key, transfers'[i].created)
  <2>1. beneficiaries' = beneficiaries
    BY <1>5 DEF Pays, ExecuteTransfer
  <2>2. /\ AgentTransfers' = AgentTransfers \cup {Len(transfers) + 1}
        /\ \A i \in AgentTransfers : transfers'[i] = transfers[i]
        /\ transfers'[Len(transfers) + 1] = TransferOf(a)
    BY <1>1, <1>5, AgentPays
  <2>3. TransferOf(a).key = a.key /\ TransferOf(a).created = now'
    BY DEF TransferOf
  <2>4. ~CoolingFires(a.key, now')
    <3>1. ~Breaks("NEW_BENEFICIARY_COOLING", a.from, a.key, a.amount, a.consent, now')
      BY <1>2, <1>5, RulePassed, RulesNamed DEF MustCool
    <3> QED
      BY <1>2, <3>1 DEF Breaks, MustCool
  <2>5. PICK b \in Range(beneficiaries) :
          b.key = a.key /\ (b.trusted \/ ~(now' - b.created < Policy.cooling))
    BY <2>4 DEF CoolingFires
  <2>6. Cooled(b, a.key, now')
    <3>1. beneficiaries \in Seq(Beneficiary) /\ now' \in Nat /\ Policy.cooling \in Nat
      BY <1>5, PolicyAssumption DEF Entered, ToolsTypeOK
    <3>2. PICK j \in DOMAIN beneficiaries : b = beneficiaries[j]
      BY <2>5 DEF Range
    <3>3. b \in Beneficiary
      BY <3>1, <3>2, ElementOfSeq, LenProperties
    <3> QED
      BY <2>5, <3>1, <3>3 DEF Cooled, Beneficiary
  <2> QED
    BY <1>3, <2>1, <2>2, <2>3, <2>5, <2>6
<1>6. ASSUME Entered, TransfersBounded, StepsBounded, stepIndex \in Nat, NEW a, Returns(a)
      PROVE  \A i \in AgentTransfers' : \E b \in Range(beneficiaries') :
               Cooled(b, transfers'[i].key, transfers'[i].created)
  <2>1. beneficiaries' = beneficiaries
    BY <1>6 DEF Returns, ExecuteReversal
  <2>2. /\ AgentTransfers' = AgentTransfers
        /\ \A i \in AgentTransfers : /\ transfers'[i].key = transfers[i].key
                                     /\ transfers'[i].created = transfers[i].created
    BY <1>1, <1>6, AgentReturns
  <2> QED
    BY <1>3, <2>1, <2>2
<1>7. ASSUME Entered, NEW a, Saves(a)
      PROVE  \A i \in AgentTransfers' : \E b \in Range(beneficiaries') :
               Cooled(b, transfers'[i].key, transfers'[i].created)
  <2>1. UNCHANGED transfers /\ Range(beneficiaries) \subseteq Range(beneficiaries')
    BY <1>1, <1>7, BeneficiarySaved
  <2>2. AgentTransfers' = AgentTransfers
    BY <2>1 DEF AgentTransfers
  <2> QED
    BY <1>3, <2>1, <2>2
<1>8. UNCHANGED storeVars \/ Challenged \/ (\E a : ConsentsAsked(a))
        => UNCHANGED <<transfers, beneficiaries>>
  BY DEF storeVars, moneyVars, Challenged, RequestStepUpAuth, ConsentsAsked, RequestConsent,
     Refuse, toolVars
<1> QED
  BY <1>1, <1>4, <1>5, <1>6, <1>7, <1>8, StepKinds

\* For every episode: where the cooling period is enforced, every payment went to a saved
\* recipient, trusted or saved long enough before (add_beneficiary, _cooling_fires,
\* create_transfer).
THEOREM RecipientsCool == Spec => []CoolingRespected
<1>1. Init => CoolingInv
  <2> SUFFICES ASSUME Init PROVE CoolingInv
    OBVIOUS
  <2>1. ConsentInv /\ transfers = FixtureTransfers
    BY ConsentInvInit DEF Init, FromFixture
  <2>2. AgentTransfers = {}
    BY <2>1, WorldAssumption, LenProperties DEF AgentTransfers
  <2> QED
    BY <2>1, <2>2 DEF CoolingInv, CoolingRespected
<1>2. CoolingInv => CoolingRespected
  BY DEF CoolingInv
<1>3. CoolingInv /\ [Next]_vars => CoolingInv'
  BY CoolingStep
<1> QED
  BY <1>1, <1>2, <1>3, PTL DEF Spec

(***************************************************************************)
(* The audit trail.  Creations and events are only ever added, and a step  *)
(* adds both for all it makes.                                             *)
(***************************************************************************)
RuntimeIds ==
  {<<"tx", i>> : i \in DOMAIN transfers \ DOMAIN FixtureTransfers}
  \cup {<<"led", n>> : n \in RuntimeEntries}
  \cup {<<"cons", i>> : i \in DOMAIN consents}
  \cup {<<"chal", i>> : i \in DOMAIN challenges}
  \cup {<<"ben", i>> : i \in DOMAIN beneficiaries \ DOMAIN FixtureBeneficiaries}

\* An event names the entity, and the creation notes its step and its kind.
OnRecord(id) ==
  \E e \in audit : id \in e.ids /\ [id |-> id, step |-> e.step, kind |-> e.kind] \in creation

AllRecorded == \A id \in RuntimeIds : OnRecord(id)

AuditInv == TypeInv /\ AuditComplete

LEMMA AuditAsRecords == AuditComplete <=> AllRecorded
<1> DEFINE logged ==
      UNION {{[id |-> i, step |-> e.step, kind |-> e.kind] : i \in e.ids} : e \in audit}
<1>1. AuditComplete <=> RuntimeIds \subseteq {c.id : c \in creation \cap logged}
  BY DEF AuditComplete, RuntimeIds
<1>2. \A id : id \in {c.id : c \in creation \cap logged} <=> OnRecord(id)
  <2>1. ASSUME NEW id, OnRecord(id)
        PROVE  id \in {c.id : c \in creation \cap logged}
    <3>1. PICK e \in audit : id \in e.ids
                             /\ [id |-> id, step |-> e.step, kind |-> e.kind] \in creation
      BY <2>1 DEF OnRecord
    <3> DEFINE c == [id |-> id, step |-> e.step, kind |-> e.kind]
    <3>2. c \in creation \cap logged /\ c.id = id
      BY <3>1
    <3> QED
      BY <3>2
  <2>2. ASSUME NEW id, id \in {c.id : c \in creation \cap logged}
        PROVE  OnRecord(id)
    <3>1. PICK c \in creation : c \in logged /\ c.id = id
      BY <2>2
    <3>2. PICK e \in audit : \E i \in e.ids : c = [id |-> i, step |-> e.step, kind |-> e.kind]
      BY <3>1
    <3> QED
      BY <3>1, <3>2 DEF OnRecord
  <2> QED
    BY <2>1, <2>2
<1> QED
  BY <1>1, <1>2 DEF AllRecorded

\* Adding to both records keeps what was recorded; an event added with the creations of
\* its own step and kind records them.
LEMMA RecordsGrow ==
  ASSUME creation \subseteq creation', audit \subseteq audit'
  PROVE  /\ \A id : OnRecord(id) => OnRecord(id)'
         /\ \A e \in audit' : \A id \in e.ids :
              [id |-> id, step |-> e.step, kind |-> e.kind] \in creation' => OnRecord(id)'
<1>1. ASSUME NEW id, OnRecord(id)
      PROVE  OnRecord(id)'
  BY <1>1 DEF OnRecord
<1>2. ASSUME NEW e \in audit', NEW id \in e.ids,
             [id |-> id, step |-> e.step, kind |-> e.kind] \in creation'
      PROVE  OnRecord(id)'
  BY <1>2 DEF OnRecord
<1> QED
  BY <1>1, <1>2

LEMMA NowRecorded ==
  ASSUME creation \subseteq creation', audit \subseteq audit',
         NEW step, NEW kind, NEW ids, NEW all, NEW payload, ids \subseteq all,
         Event(step, kind, all, payload) \in audit',
         CreatedAt(step, kind, ids) \subseteq creation'
  PROVE  \A id \in ids : OnRecord(id)'
<1> DEFINE e == Event(step, kind, all, payload)
<1>1. e.step = step /\ e.kind = kind /\ e.ids = all
  BY DEF Event
<1>2. \A id \in ids : [id |-> id, step |-> step, kind |-> kind] \in creation'
  BY DEF CreatedAt
<1> HIDE DEF e
<1>3. e \in audit'
  BY DEF e
<1> QED
  BY <1>1, <1>2, <1>3, RecordsGrow

\* Two more entries are in the runtime ledger, and no other.
LEMMA RuntimeGrows ==
  ASSUME Entered, NEW id \in Nat, NEW from \in Accounts, NEW to \in Accounts,
         NEW amount \in Nat, PostTransfer(id, from, to, amount)
  PROVE  \A n \in RuntimeEntries' : n \in RuntimeEntries \/ <<"led", n>> \in NewLedgerIds
<1>1. /\ Len(ledger) \in Nat /\ DOMAIN ledger = 1..Len(ledger)
      /\ DOMAIN ledger' = 1..(Len(ledger) + 2)
  BY EntriesPosted
<1>2. \A n \in 1..(Len(ledger) + 2) :
        n \in 1..Len(ledger) \/ n = Len(ledger) + 1 \/ n = Len(ledger) + 2
  BY <1>1
<1> QED
  BY <1>1, <1>2 DEF RuntimeEntries, NewLedgerIds

LEMMA ConsentAsked ==
  ASSUME TypeInv, NEW a, ConsentsAsked(a)
  PROVE  /\ UNCHANGED <<moneyVars, challenges, auth, beneficiaries>>
         /\ DOMAIN consents' = 1..(Len(consents) + 1)
         /\ creation' = creation \cup CreatedAt(stepIndex', "CONSENT_REQUESTED",
                                                {<<"cons", Len(consents) + 1>>})
         /\ audit \subseteq audit'
         /\ Event(stepIndex', "CONSENT_REQUESTED", {<<"cons", Len(consents) + 1>>}, None) \in audit'
<1>1. \E c : consents' = Append(consents, c)
  BY DEF ConsentsAsked, RequestConsent
<1>2. DOMAIN consents' = 1..(Len(consents) + 1)
  BY <1>1, ConsentIds DEF TypeInv, TypeOK, WorldTypeOK
<1> QED
  BY <1>2 DEF ConsentsAsked, RequestConsent

LEMMA ChallengeAsked ==
  ASSUME TypeInv, Entered, Challenged
  PROVE  LET m == Len(challenges)
             status == ChallengeStatusAfter(StepUpAnswer)
         IN /\ UNCHANGED <<moneyVars, consents, beneficiaries>>
            /\ m \in Nat /\ DOMAIN challenges = 1..m /\ DOMAIN challenges' = 1..(m + 1)
            /\ \A c \in 1..m : challenges'[c] = challenges[c]
            /\ challenges'[m + 1] = [status |-> status, created |-> now']
            /\ auth' = IF status = "APPROVED"
                       THEN [level |-> "STEP_UP", until |-> now' + Policy.stepUpTtl] ELSE auth
            /\ creation' = creation \cup CreatedAt(stepIndex', "STEP_UP_REQUESTED",
                                                   {<<"chal", m + 1>>})
            /\ audit \subseteq audit'
            /\ Event(stepIndex', "STEP_UP_REQUESTED", {<<"chal", m + 1>>}, None) \in audit'
<1> DEFINE m == Len(challenges)
           status == ChallengeStatusAfter(StepUpAnswer)
           c == [status |-> status, created |-> now']
<1>1. /\ UNCHANGED <<moneyVars, consents, beneficiaries>>
      /\ challenges' = Append(challenges, c)
      /\ auth' = IF status = "APPROVED"
                 THEN [level |-> "STEP_UP", until |-> now' + Policy.stepUpTtl] ELSE auth
      /\ creation' = creation \cup CreatedAt(stepIndex', "STEP_UP_REQUESTED",
                                             {<<"chal", m + 1>>})
      /\ audit \subseteq audit'
      /\ Event(stepIndex', "STEP_UP_REQUESTED", {<<"chal", m + 1>>}, None) \in audit'
  BY DEF Challenged, RequestStepUpAuth
<1>2. challenges \in Seq(Challenge) /\ c \in Challenge
  BY DEF TypeInv, TypeOK, WorldTypeOK, Challenge, Entered, ChallengeStatusAfter
<1> HIDE DEF c
<1>3. /\ m \in Nat /\ DOMAIN challenges = 1..m /\ DOMAIN challenges' = 1..(m + 1)
      /\ \A k \in 1..m : challenges'[k] = challenges[k]
      /\ challenges'[m + 1] = c
  BY <1>1, <1>2, AppendProperties, LenProperties
<1> QED
  BY <1>1, <1>3 DEF c

LEMMA AuditStep ==
  ASSUME AuditInv, [Next]_vars
  PROVE  AuditInv'
<1>1. TypeInv /\ TypeInv' /\ \A id \in RuntimeIds : OnRecord(id)
  BY TypeInvStep, AuditAsRecords DEF AuditInv, AllRecorded
<1>2. SUFFICES \A id \in RuntimeIds' : OnRecord(id)'
  <2>1. AuditComplete' <=> AllRecorded'
    BY AuditAsRecords, PTL
  <2> QED
    BY <1>1, <2>1 DEF AuditInv, AllRecorded
<1>3. CASE UNCHANGED storeVars
  BY <1>1, <1>3 DEF RuntimeIds, RuntimeEntries, OnRecord, storeVars, moneyVars, approvalVars,
     recordVars
<1>4. ASSUME creation \subseteq creation', audit \subseteq audit', NEW new,
             RuntimeIds' \subseteq RuntimeIds \cup new, \A id \in new : OnRecord(id)'
      PROVE  \A id \in RuntimeIds' : OnRecord(id)'
  BY <1>1, <1>4, RecordsGrow
<1>5. /\ Len(transfers) \in Nat /\ DOMAIN transfers = 1..Len(transfers)
      /\ DOMAIN consents = 1..Len(consents) /\ Len(consents) \in Nat
  BY <1>1, TransferIds, ConsentIds
<1>6. \A m \in Nat : \A j \in 1..(m + 1) : j \in 1..m \/ j = m + 1
  OBVIOUS
<1>7. ASSUME Entered, NEW a, Pays(a)
      PROVE  \A id \in RuntimeIds' : OnRecord(id)'
  <2> DEFINE tx == <<"tx", NextTransferId>>
             new == {tx} \cup NewLedgerIds
             posted == {tx} \cup NewLedgerIds
  <2>1. /\ creation' = creation
             \cup CreatedAt(stepIndex', "TRANSFER_CREATED", {tx})
             \cup CreatedAt(stepIndex', "TRANSFER_COMPLETED", NewLedgerIds)
        /\ audit \subseteq audit'
        /\ Event(stepIndex', "TRANSFER_CREATED", {tx}, None) \in audit'
        /\ Event(stepIndex', "TRANSFER_COMPLETED", posted, ExecutionEvidence(a)) \in audit'
        /\ UNCHANGED <<challenges, beneficiaries>>
    BY <1>7 DEF Pays, ExecuteTransfer
  <2>2. DOMAIN consents' = DOMAIN consents
    BY <1>1, <1>7, PaymentSpends
  <2>3. DOMAIN transfers' = 1..(Len(transfers) + 1)
    BY <1>7, PaymentAppended, LenProperties
  <2>4. \A n \in RuntimeEntries' : n \in RuntimeEntries \/ <<"led", n>> \in NewLedgerIds
    BY <1>1, <1>7, PaymentPosts, RuntimeGrows
  <2>5. RuntimeIds' \subseteq RuntimeIds \cup new
    BY <1>5, <1>6, <2>1, <2>2, <2>3, <2>4 DEF RuntimeIds, NextTransferId
  <2> HIDE DEF posted
  <2>6. \A id \in {tx} : OnRecord(id)'
    BY <2>1, NowRecorded
  <2>7. \A id \in NewLedgerIds : OnRecord(id)'
    <3>1. NewLedgerIds \subseteq posted
      BY DEF posted
    <3> QED
      BY <2>1, <3>1, NowRecorded
  <2> QED
    BY <1>4, <2>1, <2>5, <2>6, <2>7
<1>8. ASSUME Entered, TransfersBounded, StepsBounded, stepIndex \in Nat, NEW a, Returns(a)
      PROVE  \A id \in RuntimeIds' : OnRecord(id)'
  <2> DEFINE new == {<<"tx", NextTransferId>>} \cup NewLedgerIds
             all == {<<"tx", a.transfer>>} \cup new
  <2>1. /\ creation' = creation \cup CreatedAt(stepIndex', "TRANSFER_REVERSED", new)
        /\ audit' = audit \cup {Event(stepIndex', "TRANSFER_REVERSED", all, None)}
        /\ UNCHANGED <<approvalVars, beneficiaries>>
    BY <1>8 DEF Returns, ExecuteReversal
  <2>2. DOMAIN transfers' = 1..(Len(transfers) + 1)
    BY <1>1, <1>8, AgentReturns
  <2>3. \A n \in RuntimeEntries' : n \in RuntimeEntries \/ <<"led", n>> \in NewLedgerIds
    BY <1>1, <1>8, ReversalPosts, RuntimeGrows
  <2>4. RuntimeIds' \subseteq RuntimeIds \cup new
    BY <1>5, <1>6, <2>1, <2>2, <2>3 DEF RuntimeIds, NextTransferId, approvalVars
  <2>5. new \subseteq all
    OBVIOUS
  <2> HIDE DEF new, all
  <2>6. \A id \in new : OnRecord(id)'
    BY <2>1, <2>5, NowRecorded
  <2> QED
    BY <1>4, <2>1, <2>4, <2>6
<1>9. ASSUME NEW a, ConsentsAsked(a)
      PROVE  \A id \in RuntimeIds' : OnRecord(id)'
  <2> DEFINE new == {<<"cons", Len(consents) + 1>>}
  <2>1. /\ UNCHANGED <<moneyVars, challenges, auth, beneficiaries>>
        /\ DOMAIN consents' = 1..(Len(consents) + 1)
        /\ creation' = creation \cup CreatedAt(stepIndex', "CONSENT_REQUESTED", new)
        /\ audit \subseteq audit'
        /\ Event(stepIndex', "CONSENT_REQUESTED", new, None) \in audit'
    BY <1>1, <1>9, ConsentAsked
  <2>2. RuntimeIds' \subseteq RuntimeIds \cup new
    BY <1>5, <1>6, <2>1 DEF RuntimeIds, RuntimeEntries, moneyVars
  <2> HIDE DEF new
  <2>3. \A id \in new : OnRecord(id)'
    BY <2>1, NowRecorded
  <2> QED
    BY <1>4, <2>1, <2>2, <2>3
<1>10. ASSUME Entered, Challenged
       PROVE  \A id \in RuntimeIds' : OnRecord(id)'
  <2> DEFINE new == {<<"chal", Len(challenges) + 1>>}
  <2>1. /\ UNCHANGED <<moneyVars, consents, beneficiaries>>
        /\ Len(challenges) \in Nat /\ DOMAIN challenges = 1..Len(challenges)
        /\ DOMAIN challenges' = 1..(Len(challenges) + 1)
        /\ creation' = creation \cup CreatedAt(stepIndex', "STEP_UP_REQUESTED", new)
        /\ audit \subseteq audit'
        /\ Event(stepIndex', "STEP_UP_REQUESTED", new, None) \in audit'
    BY <1>1, <1>10, ChallengeAsked
  <2>2. RuntimeIds' \subseteq RuntimeIds \cup new
    BY <1>6, <2>1 DEF RuntimeIds, RuntimeEntries, moneyVars
  <2> HIDE DEF new
  <2>3. \A id \in new : OnRecord(id)'
    BY <2>1, NowRecorded
  <2> QED
    BY <1>4, <2>1, <2>2, <2>3
<1>11. ASSUME Entered, NEW a, Saves(a)
       PROVE  \A id \in RuntimeIds' : OnRecord(id)'
  <2> DEFINE new == {<<"ben", Len(beneficiaries) + 1>>}
  <2>1. /\ UNCHANGED <<moneyVars, approvalVars>>
        /\ Len(beneficiaries) \in Nat /\ DOMAIN beneficiaries = 1..Len(beneficiaries)
        /\ DOMAIN beneficiaries' = 1..(Len(beneficiaries) + 1)
        /\ creation' = creation \cup CreatedAt(stepIndex', "BENEFICIARY_ADDED", new)
        /\ audit' = audit \cup {Event(stepIndex', "BENEFICIARY_ADDED", new, None)}
    BY <1>1, <1>11, BeneficiarySaved
  <2>2. RuntimeIds' \subseteq RuntimeIds \cup new
    BY <1>6, <2>1 DEF RuntimeIds, RuntimeEntries, moneyVars, approvalVars
  <2> HIDE DEF new
  <2>3. \A id \in new : OnRecord(id)'
    BY <2>1, NowRecorded
  <2> QED
    BY <1>4, <2>1, <2>2, <2>3
<1> QED
  BY <1>1, <1>3, <1>7, <1>8, <1>9, <1>10, <1>11, StepKinds

\* INV-04, for every episode: all it creates is named by an event of the step and the kind
\* its creation is noted with (emit and _record_creation, in every handler).
THEOREM TrailComplete == Spec => []AuditComplete
<1>1. Init => AuditInv
  <2> SUFFICES ASSUME Init PROVE AuditInv
    OBVIOUS
  <2>1. /\ TypeInv /\ transfers = FixtureTransfers /\ consents = << >> /\ challenges = << >>
        /\ beneficiaries = FixtureBeneficiaries
        /\ ledger = [n \in 1..FixtureEntries |-> FixtureEntry(n)]
    BY TypeInvInit DEF Init, FromFixture
  <2>2. RuntimeEntries = {}
    <3>1. FixtureEntries \in Nat
      BY WorldAssumption, LenProperties DEF FixtureEntries
    <3> QED
      BY <2>1, <3>1 DEF RuntimeEntries
  <2>3. RuntimeIds = {}
    BY <2>1, <2>2 DEF RuntimeIds
  <2> QED
    BY <2>1, <2>3, AuditAsRecords DEF AuditInv, AllRecorded
<1>2. AuditInv => AuditComplete
  BY DEF AuditInv
<1>3. AuditInv /\ [Next]_vars => AuditInv'
  BY AuditStep
<1> QED
  BY <1>1, <1>2, <1>3, PTL DEF Spec

(***************************************************************************)
(* Strong authentication.  The code keeps one AuthState, which an approval *)
(* overwrites; the property looks at all the challenges.  They agree       *)
(* because the latest approval is the one that runs longest, and because   *)
(* no challenge is younger than the clock.                                 *)
(***************************************************************************)
Approved(c) == c.status = "APPROVED"

ChallengesPast == \A c \in Range(challenges) : c.created <= now

AuthKept ==
  \/ /\ auth = InitialAuth
     /\ \A c \in Range(challenges) : ~Approved(c)
  \/ \E c \in Range(challenges) :
       /\ Approved(c)
       /\ auth = [level |-> "STEP_UP", until |-> c.created + Policy.stepUpTtl]
       /\ \A d \in Range(challenges) : Approved(d) => d.created <= c.created

AgentPast == \A i \in AgentTransfers : transfers[i].created <= now

AuthInv == ConsentInv /\ AgentPast /\ ChallengesPast /\ AuthKept /\ StepUpBacksTransfer

\* On the clock a step has ticked to, the two accounts of an approval agree.
LEMMA RunningNow ==
  ASSUME TypeInv, ChallengesPast, AuthKept, NEW t \in Int, now < t
  PROVE  StepUpRunning(t) <=> EffectiveAuthLevel(t) = "STEP_UP"
<1>1. /\ now \in Nat /\ Policy.stepUpTtl \in Nat /\ InitialAuth \in AuthState
      /\ \A c \in Range(challenges) : c.created \in Int /\ c.created <= now
  <2>1. challenges \in Seq(Challenge) /\ now \in Nat
    BY DEF TypeInv, TypeOK, WorldTypeOK
  <2>2. \A k \in DOMAIN challenges : challenges[k] \in Challenge
    BY <2>1, ElementOfSeq, LenProperties
  <2>3. \A c \in Range(challenges) : c \in Challenge
    BY <2>2 DEF Range
  <2> QED
    BY <2>1, <2>3, PolicyAssumption, WorldAssumption DEF ChallengesPast, Challenge
<1>2. EffectiveAuthLevel(t) = "STEP_UP" <=> auth.level = "STEP_UP" /\ auth.until > t
  BY DEF EffectiveAuthLevel
<1>3. \A c \in Range(challenges) : c.created < t /\ ~(c.created >= t)
  BY <1>1
<1>4. StepUpRunning(t) <=>
        \/ InitialAuth.level = "STEP_UP" /\ InitialAuth.until > t
           /\ \A c \in Range(challenges) : ~Approved(c)
        \/ \E c \in Range(challenges) : Approved(c) /\ t < c.created + Policy.stepUpTtl
  BY <1>3 DEF StepUpRunning, Approved
<1>5. CASE auth = InitialAuth /\ \A c \in Range(challenges) : ~Approved(c)
  BY <1>2, <1>4, <1>5
<1>6. ASSUME NEW c \in Range(challenges), Approved(c),
             auth = [level |-> "STEP_UP", until |-> c.created + Policy.stepUpTtl],
             \A d \in Range(challenges) : Approved(d) => d.created <= c.created
      PROVE  StepUpRunning(t) <=> EffectiveAuthLevel(t) = "STEP_UP"
  <2>1. EffectiveAuthLevel(t) = "STEP_UP" <=> c.created + Policy.stepUpTtl > t
    BY <1>2, <1>6
  <2>2. StepUpRunning(t) <=>
          \E d \in Range(challenges) : Approved(d) /\ t < d.created + Policy.stepUpTtl
    BY <1>4, <1>6
  <2>3. \A d \in Range(challenges) :
          Approved(d) /\ t < d.created + Policy.stepUpTtl => t < c.created + Policy.stepUpTtl
    BY <1>1, <1>6
  <2>4. c.created + Policy.stepUpTtl > t <=> t < c.created + Policy.stepUpTtl
    BY <1>1
  <2> QED
    BY <1>6, <2>1, <2>2, <2>3, <2>4
<1> QED
  BY <1>5, <1>6 DEF AuthKept

\* Challenges are only added, and stamped with the clock of their step.
LEMMA ChallengesGrow ==
  ASSUME TypeInv, [Next]_vars
  PROVE  /\ Range(challenges) \subseteq Range(challenges')
         /\ \A c \in Range(challenges') : c \in Range(challenges) \/ c.created = now'
         /\ now' >= now /\ now \in Nat /\ now' \in Nat
<1>1. now \in Nat /\ now' \in Nat
  BY TypeInvStep DEF TypeInv, TypeOK, WorldTypeOK
<1>2. CASE UNCHANGED challenges /\ now' >= now
  BY <1>1, <1>2
<1>3. ASSUME Entered, Challenged, now' > now
      PROVE  /\ Range(challenges) \subseteq Range(challenges')
             /\ \A c \in Range(challenges') : c \in Range(challenges) \/ c.created = now'
  <2> DEFINE m == Len(challenges)
  <2>1. /\ m \in Nat /\ DOMAIN challenges = 1..m /\ DOMAIN challenges' = 1..(m + 1)
        /\ \A k \in 1..m : challenges'[k] = challenges[k]
        /\ challenges'[m + 1] = [status |-> ChallengeStatusAfter(StepUpAnswer), created |-> now']
    BY <1>3, ChallengeAsked
  <2>2. challenges'[m + 1].created = now'
    BY <2>1
  <2>3. \A k \in 1..(m + 1) : k \in 1..m \/ k = m + 1
    BY <2>1
  <2>4. \A k \in 1..m : k \in 1..(m + 1)
    BY <2>1
  <2> QED
    BY <2>1, <2>2, <2>3, <2>4 DEF Range
<1>4. UNCHANGED storeVars \/ (\E a : Pays(a)) \/ (\E a : Returns(a)) \/ (\E a : ConsentsAsked(a))
        \/ (\E a : Saves(a)) => UNCHANGED challenges
  BY DEF storeVars, approvalVars, Pays, ExecuteTransfer, Returns, ExecuteReversal, ConsentsAsked,
     RequestConsent, Saves, AddBeneficiary, Refuse, toolVars
<1> QED
  BY <1>1, <1>2, <1>3, <1>4, StepKinds

\* No step changes whether an approval was running at a time up to its own clock.
LEMMA RunningFixed ==
  ASSUME TypeInv, [Next]_vars, NEW t \in Int, t <= now'
  PROVE  StepUpRunning(t)' <=> StepUpRunning(t)
<1>1. /\ Range(challenges) \subseteq Range(challenges')
      /\ \A c \in Range(challenges') : c \in Range(challenges) \/ c.created = now'
      /\ now' \in Nat
  BY ChallengesGrow
<1>2. now' >= t /\ ~(now' < t)
  BY <1>1
<1>3. (\A c \in Range(challenges') : c.status = "APPROVED" => c.created >= t)
        <=> (\A c \in Range(challenges) : c.status = "APPROVED" => c.created >= t)
  BY <1>1, <1>2
<1>4. (\E c \in Range(challenges') :
         c.status = "APPROVED" /\ c.created < t /\ t < c.created + Policy.stepUpTtl)
        <=> (\E c \in Range(challenges) :
               c.status = "APPROVED" /\ c.created < t /\ t < c.created + Policy.stepUpTtl)
  BY <1>1, <1>2
<1> QED
  BY <1>3, <1>4 DEF StepUpRunning

\* A payment of the agent is an earlier one, unchanged, or the one the step made.
LEMMA AgentGrow ==
  ASSUME TypeInv, HistoryKept, [Next]_vars
  PROVE  \A i \in AgentTransfers' :
           \/ /\ i \in AgentTransfers
              /\ transfers'[i].amount = transfers[i].amount
              /\ transfers'[i].created = transfers[i].created
           \/ /\ i = Len(transfers) + 1 /\ i \notin DOMAIN transfers
              /\ Entered /\ now' > now
              /\ \E a : Pays(a) /\ transfers'[i] = TransferOf(a)
<1>1. Len(transfers) \in Nat /\ DOMAIN transfers = 1..Len(transfers)
  BY TransferIds
<1>2. CASE UNCHANGED transfers
  BY <1>2 DEF AgentTransfers
<1>3. ASSUME Entered, now' > now, NEW a, Pays(a), NEW i \in AgentTransfers'
      PROVE  \/ /\ i \in AgentTransfers
                /\ transfers'[i].amount = transfers[i].amount
                /\ transfers'[i].created = transfers[i].created
             \/ /\ i = Len(transfers) + 1 /\ i \notin DOMAIN transfers
                /\ \E b : Pays(b) /\ transfers'[i] = TransferOf(b)
  BY <1>1, <1>3, AgentPays
<1>4. ASSUME Entered, TransfersBounded, StepsBounded, stepIndex \in Nat, NEW a, Returns(a)
      PROVE  \A i \in AgentTransfers' :
               /\ i \in AgentTransfers
               /\ transfers'[i].amount = transfers[i].amount
               /\ transfers'[i].created = transfers[i].created
  BY <1>4, AgentReturns
<1> QED
  BY <1>2, <1>3, <1>4, StepEffects DEF Asks

LEMMA AgentPastStep ==
  ASSUME ConsentInv, AgentPast, [Next]_vars
  PROVE  AgentPast' /\ \A i \in AgentTransfers : /\ transfers[i].created \in Int
                                                  /\ transfers[i].created <= now'
<1>1. /\ TypeInv /\ HistoryKept /\ now' >= now /\ now \in Nat /\ now' \in Nat
  BY ChallengesGrow DEF ConsentInv
<1>2. \A i \in AgentTransfers : transfers[i].created \in Int /\ transfers[i].created <= now'
  <2>1. \A i \in AgentTransfers : transfers[i] \in Transfer
    BY <1>1, TransferIds DEF AgentTransfers
  <2>2. \A i \in AgentTransfers : transfers[i].created \in Int /\ transfers[i].created <= now
    BY <2>1 DEF Transfer, AgentPast
  <2> QED
    BY <1>1, <2>2
<1>3. \A a : TransferOf(a).created <= now'
  BY <1>1 DEF TransferOf
<1> QED
  BY <1>1, <1>2, <1>3, AgentGrow DEF AgentPast

LEMMA AuthKeptStep ==
  ASSUME TypeInv, ChallengesPast, AuthKept, [Next]_vars
  PROVE  ChallengesPast' /\ AuthKept'
<1>1. /\ \A c \in Range(challenges') : c \in Range(challenges) \/ c.created = now'
      /\ now' >= now /\ now \in Nat /\ now' \in Nat
      /\ \A c \in Range(challenges) : c.created \in Int /\ c.created <= now'
  <2>1. challenges \in Seq(Challenge)
    BY DEF TypeInv, TypeOK, WorldTypeOK
  <2>2. \A k \in DOMAIN challenges : challenges[k] \in Challenge
    BY <2>1, ElementOfSeq, LenProperties
  <2>3. \A c \in Range(challenges) : c \in Challenge
    BY <2>2 DEF Range
  <2>4. \A c \in Range(challenges) : c.created \in Int /\ c.created <= now
    BY <2>3 DEF Challenge, ChallengesPast
  <2> QED
    BY <2>4, ChallengesGrow
<1>2. ChallengesPast'
  BY <1>1 DEF ChallengesPast
<1>3. CASE UNCHANGED <<challenges, auth>>
  BY <1>2, <1>3 DEF AuthKept, Approved
<1>4. ASSUME Entered, Challenged
      PROVE  AuthKept'
  <2> DEFINE m == Len(challenges)
             status == ChallengeStatusAfter(StepUpAnswer)
             new == [status |-> status, created |-> now']
  <2>1. /\ m \in Nat /\ DOMAIN challenges = 1..m /\ DOMAIN challenges' = 1..(m + 1)
        /\ \A k \in 1..m : challenges'[k] = challenges[k]
        /\ challenges'[m + 1] = new
        /\ auth' = IF status = "APPROVED"
                   THEN [level |-> "STEP_UP", until |-> now' + Policy.stepUpTtl] ELSE auth
    BY <1>4, ChallengeAsked
  <2>2. new.status = status /\ new.created = now'
    OBVIOUS
  <2> HIDE DEF new, status
  <2>3. /\ new \in Range(challenges') /\ Range(challenges) \subseteq Range(challenges')
        /\ \A c \in Range(challenges') : c \in Range(challenges) \/ c = new
    <3>1. \A k \in 1..(m + 1) : k \in 1..m \/ k = m + 1
      BY <2>1
    <3>2. m + 1 \in 1..(m + 1) /\ \A k \in 1..m : k \in 1..(m + 1)
      BY <2>1
    <3> QED
      BY <2>1, <3>1, <3>2 DEF Range
  <2>4. CASE status = "APPROVED"
    <3>1. Approved(new) /\ auth' = [level |-> "STEP_UP", until |-> new.created + Policy.stepUpTtl]
      BY <2>1, <2>2, <2>4 DEF Approved
    <3>2. \A d \in Range(challenges') : d.created <= new.created
      BY <1>1, <2>2
    <3> QED
      BY <2>3, <3>1, <3>2 DEF AuthKept, Approved
  <2>5. CASE status # "APPROVED"
    <3>1. ~Approved(new) /\ auth' = auth
      BY <2>1, <2>2, <2>5 DEF Approved
    <3>2. \A c \in Range(challenges') : Approved(c) => c \in Range(challenges)
      BY <2>3, <3>1
    <3> QED
      BY <2>3, <3>1, <3>2 DEF AuthKept, Approved
  <2> QED
    BY <2>4, <2>5
<1>5. UNCHANGED storeVars \/ (\E a : Pays(a)) \/ (\E a : Returns(a)) \/ (\E a : ConsentsAsked(a))
        \/ (\E a : Saves(a)) => UNCHANGED <<challenges, auth>>
  BY DEF storeVars, approvalVars, Pays, ExecuteTransfer, Returns, ExecuteReversal, ConsentsAsked,
     RequestConsent, Saves, AddBeneficiary, Refuse, toolVars
<1> QED
  BY <1>2, <1>3, <1>4, <1>5, StepKinds

LEMMA AuthStep ==
  ASSUME AuthInv, [Next]_vars
  PROVE  AuthInv'
<1>1. /\ TypeInv /\ HistoryKept /\ ConsentInv' /\ AgentPast'
      /\ \A i \in AgentTransfers : transfers[i].created \in Int /\ transfers[i].created <= now'
  BY ConsentInvStep, AgentPastStep DEF AuthInv, ConsentInv
<1>2. ChallengesPast' /\ AuthKept'
  BY <1>1, AuthKeptStep DEF AuthInv
<1>3. ASSUME Policy.stepUpThreshold # None, Enforced("STEP_UP_REQUIRED"),
             NEW i \in AgentTransfers', transfers'[i].amount >= Policy.stepUpThreshold
      PROVE  StepUpRunning(transfers[i].created)'
  <2>1. CASE /\ i \in AgentTransfers
             /\ transfers'[i].amount = transfers[i].amount
             /\ transfers'[i].created = transfers[i].created
    <3>1. StepUpRunning(transfers[i].created)
      BY <1>3, <2>1 DEF AuthInv, StepUpBacksTransfer
    <3>2. PICK t : t = transfers[i].created
      OBVIOUS
    <3>3. t \in Int /\ t <= now' /\ StepUpRunning(t)
      BY <1>1, <2>1, <3>1, <3>2
    <3>4. StepUpRunning(t)'
      BY <1>1, <3>3, RunningFixed
    <3> QED
      BY <2>1, <3>2, <3>4 DEF StepUpRunning
  <2>2. ASSUME Entered, now' > now, NEW a, Pays(a), transfers'[i] = TransferOf(a)
        PROVE  StepUpRunning(transfers[i].created)'
    <3>1. transfers'[i].created = now' /\ transfers'[i].amount = a.amount
      BY <2>2 DEF TransferOf
    <3>2. ~Breaks("STEP_UP_REQUIRED", a.from, a.key, a.amount, a.consent, now')
      BY <1>3, <2>2, RulePassed, RulesNamed
    <3>3. EffectiveAuthLevel(now') = "STEP_UP"
      BY <1>3, <3>1, <3>2 DEF Breaks
    <3>4. PICK t : t = now'
      OBVIOUS
    <3>5. t \in Int /\ now < t /\ t <= now'
      BY <2>2, <3>4 DEF Entered
    <3>6. StepUpRunning(t)
      BY <1>1, <3>3, <3>4, <3>5, RunningNow DEF AuthInv
    <3>7. StepUpRunning(t)'
      BY <1>1, <3>5, <3>6, RunningFixed
    <3> QED
      BY <3>1, <3>4, <3>7 DEF StepUpRunning
  <2> QED
    BY <1>1, <2>1, <2>2, AgentGrow
<1>4. StepUpBacksTransfer'
  BY <1>3 DEF StepUpBacksTransfer, Enforced
<1> QED
  BY <1>1, <1>2, <1>4 DEF AuthInv

LEMMA AuthInvInit == Init => AuthInv
<1> SUFFICES ASSUME Init PROVE AuthInv
  OBVIOUS
<1>1. ConsentInv /\ transfers = FixtureTransfers /\ challenges = << >> /\ auth = InitialAuth
  BY ConsentInvInit DEF Init, FromFixture
<1>2. AgentTransfers = {}
  BY <1>1, WorldAssumption, LenProperties DEF AgentTransfers
<1>3. Range(challenges) = {}
  BY <1>1 DEF Range
<1> QED
  BY <1>1, <1>2, <1>3 DEF AuthInv, AgentPast, ChallengesPast, AuthKept, StepUpBacksTransfer

\* For every episode: where strong authentication is enforced, no payment at or above the
\* threshold was made but while the fixture's approval or one the user gave was running
\* (request_step_up_auth, effective_auth_level, create_transfer).
THEOREM ApprovalsRun == Spec => []StepUpBacksTransfer
<1>1. AuthInv => StepUpBacksTransfer
  BY DEF AuthInv
<1>2. AuthInv /\ [Next]_vars => AuthInv'
  BY AuthStep
<1> QED
  BY <1>1, <1>2, AuthInvInit, PTL DEF Spec

(***************************************************************************)
(* The evidence of a payment.  An unspent consent names no transfer, and   *)
(* an event names only transfers that were made, so what an event says of  *)
(* a payment is settled once the payment is made.                          *)
(***************************************************************************)
UnspentNamesNone ==
  \A c \in DOMAIN consents : consents[c].status # "USED" => consents[c].usedBy = NoId

EventsNamed ==
  \A e \in audit : e.kind = "TRANSFER_COMPLETED" =>
    \A id \in e.ids : id[1] = "tx" => id[2] \in DOMAIN transfers

EvidenceInv == AuthInv /\ UnspentNamesNone /\ EventsNamed /\ EvidenceSound

\* The event that completes a payment.
CompletedBy(a) ==
  Event(stepIndex', "TRANSFER_COMPLETED", {<<"tx", NextTransferId>>} \cup NewLedgerIds,
        ExecutionEvidence(a))

\* Only a payment adds an event of that kind.
LEMMA CompletionEvents ==
  ASSUME TypeInv, [Next]_vars
  PROVE  \A e \in audit' : e.kind = "TRANSFER_COMPLETED" =>
           \/ e \in audit
           \/ \E a : Pays(a) /\ e = CompletedBy(a) /\ Entered /\ now' > now
<1>1. CASE UNCHANGED audit
  BY <1>1
<1>2. ASSUME NEW a, Pays(a), NEW e \in audit', e.kind = "TRANSFER_COMPLETED"
      PROVE  e \in audit \/ e = CompletedBy(a)
  <2>1. PICK kind, ids, payload :
          /\ e \in audit \/ e = CompletedBy(a)
             \/ (kind # "TRANSFER_COMPLETED" /\ e = Event(stepIndex', kind, ids, payload))
    BY <1>2 DEF Pays, ExecuteTransfer, CompletedBy, ViolationEvents
  <2> QED
    BY <1>2, <2>1 DEF Event
<1>3. ASSUME NEW a, Returns(a), NEW e \in audit', e.kind = "TRANSFER_COMPLETED"
      PROVE  e \in audit
  BY <1>3 DEF Returns, ExecuteReversal, Event
<1>4. ASSUME NEW a, ConsentsAsked(a), NEW e \in audit', e.kind = "TRANSFER_COMPLETED"
      PROVE  e \in audit
  BY <1>4 DEF ConsentsAsked, RequestConsent, Event, AnswerEvent, Refuse, toolVars
<1>5. ASSUME NEW a, Saves(a), NEW e \in audit', e.kind = "TRANSFER_COMPLETED"
      PROVE  e \in audit
  BY <1>5 DEF Saves, AddBeneficiary, Event, Refuse, toolVars
<1>6. ASSUME Challenged, NEW e \in audit', e.kind = "TRANSFER_COMPLETED"
      PROVE  e \in audit
  BY <1>6 DEF Challenged, RequestStepUpAuth, Event, AnswerEvent
<1> QED
  BY <1>1, <1>2, <1>3, <1>4, <1>5, <1>6, StepKinds DEF storeVars, recordVars

\* The id a completion event gives its payment is that of the new transfer.
LEMMA CompletionIds ==
  ASSUME NEW a, NEW id \in CompletedBy(a).ids, id[1] = "tx"
  PROVE  id[2] = NextTransferId
<1>1. CompletedBy(a).ids = {<<"tx", NextTransferId>>} \cup NewLedgerIds
  BY DEF CompletedBy, Event
<1> QED
  BY <1>1 DEF NewLedgerIds

\* Which payments spent a consent: the earlier ones as before, and the new one if its
\* consent held.
LEMMA UsersStep ==
  ASSUME ConsentInv, UnspentNamesNone, [Next]_vars
  PROVE  /\ UnspentNamesNone'
         /\ \A i \in AgentTransfers :
              (\E c \in Range(consents') : c.usedBy = i) <=> (\E c \in Range(consents) : c.usedBy = i)
         /\ \A a : Pays(a) =>
              ((\E c \in Range(consents') : c.usedBy = NextTransferId) <=> ConsentHolds(a))
<1> DEFINE n == Len(transfers)
           m == Len(consents)
<1>1. /\ TypeInv /\ n \in Nat /\ DOMAIN transfers = 1..n
      /\ m \in Nat /\ DOMAIN consents = 1..m
      /\ \A i \in AgentTransfers : i # NoId /\ i # n + 1
  BY TransferIds, ConsentIds DEF ConsentInv, AgentTransfers, NoId
<1>2. \A c \in 1..m : consents[c].usedBy # n + 1
  <2>1. \A c \in 1..m : consents[c].status = "USED" => consents[c].usedBy \in AgentTransfers
    BY <1>1, BackingAsParts DEF ConsentInv, AllOwned
  <2> QED
    BY <1>1, <2>1 DEF UnspentNamesNone, NoId
<1>3. ASSUME NEW a, Pays(a)
      PROVE  /\ UnspentNamesNone'
             /\ \A i \in AgentTransfers :
                  (\E c \in Range(consents') : c.usedBy = i)
                    <=> (\E c \in Range(consents) : c.usedBy = i)
             /\ (\E c \in Range(consents') : c.usedBy = NextTransferId) <=> ConsentHolds(a)
  <2>1. /\ DOMAIN consents' = 1..m
        /\ \A c \in 1..m : c # a.consent \/ ~ConsentHolds(a) => consents'[c] = consents[c]
        /\ ConsentHolds(a) => /\ consents'[a.consent].status = "USED"
                              /\ consents'[a.consent].usedBy = n + 1
    BY <1>1, <1>3, PaymentSpends
  <2>2. ConsentHolds(a) => a.consent \in 1..m /\ consents[a.consent].usedBy = NoId
    BY <1>1, ConsentHolding DEF UnspentNamesNone
  <2>3. UnspentNamesNone'
    BY <1>1, <2>1, <2>2 DEF UnspentNamesNone
  <2>4. ASSUME NEW i \in AgentTransfers, NEW c \in 1..m
        PROVE  consents'[c].usedBy = i <=> consents[c].usedBy = i
    BY <1>1, <2>1, <2>2
  <2>5. (\E c \in 1..m : consents'[c].usedBy = n + 1) <=> ConsentHolds(a)
    BY <1>2, <2>1, <2>2
  <2> QED
    BY <1>1, <2>1, <2>3, <2>4, <2>5 DEF Range, NextTransferId
<1>4. ASSUME NEW a, NEW status, Asks(a, status)
      PROVE  /\ UnspentNamesNone'
             /\ \A i \in AgentTransfers :
                  (\E c \in Range(consents') : c.usedBy = i)
                    <=> (\E c \in Range(consents) : c.usedBy = i)
  <2> DEFINE asked == [from |-> a.from, key |-> a.key, amount |-> a.amount, status |-> status,
                       created |-> now', expires |-> now' + Policy.consentTtl, usedBy |-> NoId]
  <2>1. consents' = Append(consents, asked) /\ asked.usedBy = NoId
    BY <1>4 DEF Asks
  <2> HIDE DEF asked
  <2>2. /\ DOMAIN consents' = 1..(m + 1)
        /\ consents'[m + 1] = asked
        /\ \A c \in 1..m : consents'[c] = consents[c]
    <3>1. consents \in Seq(Consent) /\ consents' \in Seq(Consent)
      BY <1>1, TypeInvStep DEF TypeInv, TypeOK, WorldTypeOK
    <3> QED
      BY <1>1, <2>1, <3>1, AppendProperties, LenProperties
  <2>3. /\ \A c \in 1..(m + 1) : c = m + 1 \/ c \in 1..m
        /\ \A c \in 1..m : c \in 1..(m + 1)
    BY <1>1
  <2>4. UnspentNamesNone'
    BY <1>1, <2>1, <2>2, <2>3 DEF UnspentNamesNone
  <2>5. \A i \in AgentTransfers :
          (\E c \in 1..(m + 1) : consents'[c].usedBy = i) <=> (\E c \in 1..m : consents[c].usedBy = i)
    BY <1>1, <2>1, <2>2, <2>3
  <2> QED
    BY <1>1, <2>2, <2>4, <2>5 DEF Range
<1>5. ASSUME UNCHANGED consents
      PROVE  /\ UnspentNamesNone'
             /\ \A i \in AgentTransfers :
                  (\E c \in Range(consents') : c.usedBy = i)
                    <=> (\E c \in Range(consents) : c.usedBy = i)
  BY <1>5 DEF UnspentNamesNone
<1>6. (\E a : Returns(a)) => UNCHANGED consents
  BY DEF Returns, ExecuteReversal, approvalVars
<1> QED
  BY <1>1, <1>3, <1>4, <1>5, <1>6, StepEffects

LEMMA EvidenceStep ==
  ASSUME EvidenceInv, [Next]_vars
  PROVE  EvidenceInv'
<1>1. /\ AuthInv /\ AuthInv' /\ TypeInv /\ ConsentInv /\ HistoryKept /\ UnspentNamesNone'
      /\ Len(transfers) \in Nat /\ DOMAIN transfers = 1..Len(transfers)
  BY AuthStep, UsersStep, TransferIds DEF EvidenceInv, AuthInv, ConsentInv
<1>2. /\ DOMAIN transfers \subseteq DOMAIN transfers'
      /\ \A a : Pays(a) /\ Entered => NextTransferId \in DOMAIN transfers'
  <2>1. ASSUME NEW a, Pays(a), Entered
        PROVE  DOMAIN transfers' = 1..(Len(transfers) + 1)
    BY <1>1, <2>1, AgentPays
  <2>2. ASSUME Entered, TransfersBounded, StepsBounded, stepIndex \in Nat, NEW a, Returns(a)
        PROVE  DOMAIN transfers' = 1..(Len(transfers) + 1)
    BY <1>1, <2>2, AgentReturns
  <2>3. /\ Len(transfers) + 1 \in 1..(Len(transfers) + 1)
        /\ DOMAIN transfers \subseteq 1..(Len(transfers) + 1)
    BY <1>1
  <2>4. (\E a, status : Asks(a, status)) => UNCHANGED transfers
    BY DEF Asks
  <2>5. DOMAIN transfers \subseteq DOMAIN transfers'
    BY <1>1, <2>1, <2>2, <2>3, <2>4, StepEffects
  <2> QED
    BY <2>1, <2>3, <2>5 DEF NextTransferId
<1>3. EventsNamed'
  <2>1. ASSUME NEW e \in audit', e.kind = "TRANSFER_COMPLETED", NEW id \in e.ids, id[1] = "tx"
        PROVE  id[2] \in DOMAIN transfers'
    <3>1. CASE e \in audit
      BY <1>2, <2>1, <3>1 DEF EvidenceInv, EventsNamed
    <3>2. ASSUME NEW a, Pays(a), e = CompletedBy(a), Entered
          PROVE  id[2] \in DOMAIN transfers'
      BY <1>2, <2>1, <3>2, CompletionIds
    <3> QED
      BY <1>1, <2>1, <3>1, <3>2, CompletionEvents
  <2> QED
    BY <2>1 DEF EventsNamed
<1>4. ASSUME NEW e \in audit', e.kind = "TRANSFER_COMPLETED",
             NEW i \in AgentTransfers', <<"tx", i>> \in e.ids
      PROVE  /\ e.payload.scopeMatched <=> \E c \in Range(consents') : c.usedBy = i
             /\ e.payload.scopeMatched => e.payload.consentStatus = "GRANTED"
             /\ (e.payload.authLevel = "STEP_UP") <=> StepUpRunning(transfers[i].created)'
  <2>1. CASE e \in audit
    <3>1. i \in DOMAIN transfers
      BY <1>4, <2>1 DEF EvidenceInv, EventsNamed
    <3>2. i \in AgentTransfers /\ transfers'[i].created = transfers[i].created
      BY <1>1, <1>4, <3>1, AgentGrow
    <3>3. /\ e.payload.scopeMatched <=> \E c \in Range(consents) : c.usedBy = i
          /\ e.payload.scopeMatched => e.payload.consentStatus = "GRANTED"
          /\ (e.payload.authLevel = "STEP_UP") <=> StepUpRunning(transfers[i].created)
      BY <1>4, <2>1, <3>2 DEF EvidenceInv, EvidenceSound
    <3>4. (\E c \in Range(consents') : c.usedBy = i) <=> (\E c \in Range(consents) : c.usedBy = i)
      BY <1>1, <3>2, UsersStep DEF EvidenceInv
    <3>5. PICK t : t = transfers[i].created
      OBVIOUS
    <3>6. t \in Int /\ t <= now'
      BY <1>1, <3>2, <3>5, AgentPastStep DEF AuthInv
    <3>7. StepUpRunning(t)' <=> StepUpRunning(t)
      BY <1>1, <3>6, RunningFixed
    <3>8. StepUpRunning(transfers[i].created)' <=> StepUpRunning(transfers[i].created)
      BY <3>2, <3>5, <3>7 DEF StepUpRunning
    <3> QED
      BY <3>3, <3>4, <3>8
  <2>2. ASSUME NEW a, Pays(a), e = CompletedBy(a), Entered, now' > now
        PROVE  /\ e.payload.scopeMatched <=> \E c \in Range(consents') : c.usedBy = i
               /\ e.payload.scopeMatched => e.payload.consentStatus = "GRANTED"
               /\ (e.payload.authLevel = "STEP_UP") <=> StepUpRunning(transfers[i].created)'
    <3>1. i = NextTransferId
      <4>1. <<"tx", i>>[1] = "tx" /\ <<"tx", i>>[2] = i
        OBVIOUS
      <4> QED
        BY <1>4, <2>2, <4>1, CompletionIds
    <3>2. e.payload = ExecutionEvidence(a)
      BY <2>2 DEF CompletedBy, Event
    <3>3. /\ e.payload.scopeMatched = ConsentHolds(a)
          /\ e.payload.authLevel = EffectiveAuthLevel(now')
          /\ e.payload.consentStatus = IF a.consent \in DOMAIN consents
                                       THEN consents[a.consent].status ELSE None
      BY <3>2 DEF ExecutionEvidence
    <3>4. (\E c \in Range(consents') : c.usedBy = i) <=> ConsentHolds(a)
      BY <1>1, <2>2, <3>1, UsersStep DEF EvidenceInv
    <3>5. ConsentHolds(a) => e.payload.consentStatus = "GRANTED"
      BY <3>3, ConsentHolding
    <3>6. transfers'[i].created = now'
      <4>1. transfers'[Len(transfers) + 1] = TransferOf(a)
        BY <1>1, <2>2, AgentPays
      <4> QED
        BY <3>1, <4>1 DEF NextTransferId, TransferOf
    <3>7. PICK t : t = now'
      OBVIOUS
    <3>8. t \in Int /\ now < t /\ t <= now'
      BY <2>2, <3>7 DEF Entered
    <3>9. StepUpRunning(t) <=> EffectiveAuthLevel(t) = "STEP_UP"
      BY <1>1, <3>8, RunningNow DEF AuthInv
    <3>10. StepUpRunning(t)' <=> StepUpRunning(t)
      BY <1>1, <3>8, RunningFixed
    <3>11. StepUpRunning(transfers[i].created)' <=> StepUpRunning(t)'
      BY <3>6, <3>7 DEF StepUpRunning
    <3> QED
      BY <3>3, <3>4, <3>5, <3>7, <3>9, <3>10, <3>11
  <2> QED
    BY <1>1, <1>4, <2>1, <2>2, CompletionEvents
<1>5. EvidenceSound'
  BY <1>4 DEF EvidenceSound
<1> QED
  BY <1>1, <1>3, <1>5 DEF EvidenceInv

\* For every episode and every enforcement mode: what a completed payment's event says of
\* the consent and of the authentication behind it is what happened
\* (_create_transfer_body, effective_auth_level).
THEOREM EvidenceTrue == Spec => []EvidenceSound
<1>1. Init => EvidenceInv
  <2> SUFFICES ASSUME Init PROVE EvidenceInv
    OBVIOUS
  <2>1. AuthInv /\ consents = << >> /\ audit = {}
    BY AuthInvInit DEF Init, FromFixture
  <2> QED
    BY <2>1 DEF EvidenceInv, UnspentNamesNone, EventsNamed, EvidenceSound
<1>2. EvidenceInv => EvidenceSound
  BY DEF EvidenceInv
<1>3. EvidenceInv /\ [Next]_vars => EvidenceInv'
  BY EvidenceStep
<1> QED
  BY <1>1, <1>2, <1>3, PTL DEF Spec

(***************************************************************************)
(* Errors.  A handler answers with an error only on its way out, with      *)
(* nothing done; the one fault that reports an error for what was done is  *)
(* the timeout after execution, and then that fault fired in this step.    *)
(***************************************************************************)
InertStep ==
  obs'.kind = "tool_error" =>
    \/ UNCHANGED toolVars
    \/ /\ obs'.code = "TIMEOUT"
       /\ \E f \in fired' \ fired :
            f.tool = call'.tool /\ f.kind = "TIMEOUT_AFTER_EXECUTE"

\* A success is reported as an error only when the fault strikes after execution.
LEMMA LateOnly ==
  ASSUME NEW result, NEW fault, OkUnlessLate(result, fault)
  PROVE  obs'.kind = "tool_error" =>
           obs'.code = "TIMEOUT" /\ fault.kind = "TIMEOUT_AFTER_EXECUTE"
BY DEF OkUnlessLate, Err, ErrBecause, Ok, OkAs, Reply, Observation

LEMMA HandleInert ==
  ASSUME NEW c, NEW fault, Handle(c, fault)
  PROVE  obs'.kind = "tool_error" =>
           UNCHANGED toolVars
           \/ (obs'.code = "TIMEOUT" /\ fault.kind = "TIMEOUT_AFTER_EXECUTE")
<1>1. ASSUME NEW code, NEW f, Refuse(code, f)
      PROVE  UNCHANGED toolVars
  BY <1>1 DEF Refuse
<1>2. ASSUME NEW result, Ok(result, fault)
      PROVE  obs'.kind # "tool_error"
  BY <1>2 DEF Ok, OkAs, Reply, Observation
<1>3. CASE CreateTransfer(c.args, fault)
  BY <1>1, <1>3, LateOnly DEF CreateTransfer
<1>4. CASE ReverseTransfer(c.args, fault)
  BY <1>1, <1>4, LateOnly DEF ReverseTransfer
<1>5. CASE RequestConsent(c.args, fault)
  BY <1>1, <1>2, <1>5 DEF RequestConsent
<1>6. CASE AddBeneficiary(c.args, fault)
  BY <1>1, <1>2, <1>6 DEF AddBeneficiary
<1>7. CASE RequestStepUpAuth(fault) \/ AskUser(fault)
  BY <1>2, <1>7 DEF RequestStepUpAuth, AskUser
<1>8. CASE \/ GetCustomerProfile(fault)
           \/ GetAccountBalance(c.args, fault)
           \/ ListBeneficiaries(fault)
           \/ LookupPixKey(c.args, fault)
           \/ CheckTransferPolicy(c.args, fault)
           \/ GetTransfer(c.args, fault)
           \/ GetTransferByIdempotencyKey(c.args, fault)
           \/ ListTransfers(c.args, fault)
           \/ Finish(c.args, fault)
  BY <1>8 DEF GetCustomerProfile, GetAccountBalance, ListBeneficiaries, LookupPixKey,
              CheckTransferPolicy, GetTransfer, GetTransferByIdempotencyKey, ListTransfers,
              Finish, Read, ReadAt, Refuse
<1> QED
  BY <1>3, <1>4, <1>5, <1>6, <1>7, <1>8 DEF Handle

\* A fault that strikes a call after execution is one of the plan's that fires now.
LEMMA StrikesNow ==
  ASSUME NEW tool, CheckFault(tool), DueFault(tool).kind = "TIMEOUT_AFTER_EXECUTE"
  PROVE  \E f \in fired' \ fired : f.tool = tool /\ f.kind = "TIMEOUT_AFTER_EXECUTE"
<1> DEFINE due == CHOOSE f \in DueFaults(tool) : TRUE
<1>1. DueFaults(tool) # {}
  BY DEF DueFault, NoFault
<1>2. due \in DueFaults(tool) /\ due.kind = "TIMEOUT_AFTER_EXECUTE"
  BY <1>1 DEF DueFault
<1> HIDE DEF due
<1>3. due \in fired' \ fired /\ due.tool = tool
  BY <1>2 DEF CheckFault, DueFaults
<1> QED
  BY <1>2, <1>3

\* For every episode: a call that fails leaves money, approvals, recipients, records and
\* the user's script as they were, unless it is a TIMEOUT that struck after execution
\* (every handler of tools/, dispatch, _timeout_after in create and reverse).
THEOREM ErrorsInert == Spec => ErrorsAreInert
<1>1. [Next]_vars => [InertStep]_vars
  <2> SUFFICES ASSUME Next, ~UNCHANGED vars PROVE InertStep
    OBVIOUS
  <2>1. PICK c \in Calls : Step(c)
    BY DEF Next, AfterEpisode
  <2> DEFINE fault == DueFault(c.tool)
  <2>2. call' = c /\ CheckFault(c.tool) /\ DispatchCall(c, fault)
    BY <2>1 DEF Step
  <2>3. CASE \E code, f : Refuse(code, f)
    BY <2>3 DEF Refuse, InertStep
  <2>4. CASE Handle(c, fault)
    <3>1. obs'.kind = "tool_error" =>
            UNCHANGED toolVars
            \/ (obs'.code = "TIMEOUT" /\ fault.kind = "TIMEOUT_AFTER_EXECUTE")
      BY <2>4, HandleInert
    <3> QED
      BY <2>2, <3>1, StrikesNow DEF InertStep
  <2> QED
    BY <2>2, <2>3, <2>4 DEF DispatchCall
<1>2. Spec => [][InertStep]_vars
  BY <1>1, PTL DEF Spec
<1> QED
  BY <1>2 DEF ErrorsAreInert, InertStep

(***************************************************************************)
(* The calls that are answered with a result are those their handler       *)
(* executed, with arguments of their schema.                               *)
(***************************************************************************)
LEMMA AnsweredByHandler ==
  ASSUME NEW c \in Calls, Step(c), obs'.kind = "tool_result"
  PROVE  /\ c.args \in ArgsOf(c.tool) /\ c.tool \in Tools
         /\ Handle(c, DueFault(c.tool))
         /\ call' = c
<1>1. DispatchCall(c, DueFault(c.tool)) /\ call' = c
  BY DEF Step
<1>2. ASSUME NEW code, NEW f, Refuse(code, f)
      PROVE  FALSE
  BY <1>2 DEF Refuse, Err, ErrBecause, Reply, Observation
<1>3. c.tool \in Tools /\ c.args # Malformed /\ Handle(c, DueFault(c.tool))
  BY <1>1, <1>2 DEF DispatchCall
<1> QED
  BY <1>1, <1>3, CallAssumption

\* The result of an executed payment, a replay or a reversal is the one its handler gave.
LEMMA LateAnswers ==
  ASSUME NEW result, NEW fault, OkUnlessLate(result, fault), obs'.kind = "tool_result"
  PROVE  obs'.result = result
BY DEF OkUnlessLate, Err, ErrBecause, Ok, OkAs, Reply, Observation

(***************************************************************************)
(* Successes of create_transfer.  A replay answers with the first transfer *)
(* that holds the key; that it is a payment and no reversal rests on the   *)
(* reversals' keys being their own, and that it is older than the answer   *)
(* on no transfer being younger than the clock.                            *)
(***************************************************************************)
CreateInv == UniqueInv /\ TransfersPast /\ CreateAnswersTruthfully

\* What CreateAnswersTruthfully asks of the call a, answered with the result res.
TrueAnswer(ts, a, res, time) ==
  LET x == ts[res.transfer] IN
  /\ <<x.from, x.key, x.amount, x.memo, x.idem>> = <<a.from, a.key, a.amount, a.memo, a.idem>>
  /\ x.reversalOf = NoId
  /\ res.replay <=> x.created < time

LEMMA CreateAnswered ==
  ASSUME KeysReserved, UniqueInv, TransfersPast, Entered, now' > now,
         NEW a \in ArgsOf("create_transfer"), NEW fault, CreateTransfer(a, fault),
         obs'.kind = "tool_result"
  PROVE  TrueAnswer(transfers', a, obs'.result, now')
<1>1. now \in Nat /\ now' \in Nat /\ ToolsTypeOK
  BY DEF UniqueInv, PairedInv, TypeInv, TypeOK, WorldTypeOK, Entered
<1>2. CASE CreateVerdict(a) = "execute" /\ ExecuteTransfer(a)
           /\ \E w : OkUnlessLate([transfer |-> NextTransferId, replay |-> FALSE,
                                  warnings |-> w], fault)
  <2>1. obs'.result.transfer = NextTransferId /\ obs'.result.replay = FALSE
    BY <1>2, LateAnswers
  <2>2. transfers'[NextTransferId] = TransferOf(a)
    BY <1>2, PaymentAppended DEF Pays, NextTransferId
  <2>3. LET x == TransferOf(a) IN
        /\ <<x.from, x.key, x.amount, x.memo, x.idem>>
             = <<a.from, a.key, a.amount, a.memo, a.idem>>
        /\ x.reversalOf = NoId /\ x.created = now'
    BY DEF TransferOf
  <2> QED
    BY <1>1, <2>1, <2>2, <2>3 DEF TrueAnswer
<1>3. CASE CreateVerdict(a) = "replay" /\ UNCHANGED toolVars
           /\ \E w : OkUnlessLate([transfer |-> Holder(a.idem), replay |-> TRUE,
                                  warnings |-> w], fault)
  <2> DEFINE h == Holder(a.idem)
             x == transfers[h]
  <2>1. obs'.result.transfer = h /\ obs'.result.replay = TRUE
    BY <1>3, LateAnswers
  <2>2. transfers' = transfers
    BY <1>3 DEF toolVars, moneyVars
  <2>3. Holder(a.idem) # NoId /\ SameRequest(x, a)
    <3>1. \A r : HardError(r, a) # "replay"
      BY DEF HardError
    <3> QED
      BY <1>3, <3>1 DEF CreateVerdict
  <2>4. h \in DOMAIN transfers /\ x.idem = a.idem
    BY <1>1, <2>3, HeldKey
  <2>5. x.reversalOf = NoId
    <3>1. a.idem \notin Range(RevKey)
      BY DEF ArgsOf, KeysReserved
    <3> QED
      BY <2>4, <3>1 DEF UniqueInv, KeysTell, Range
  <2>6. x.created < now'
    <3>1. x.created <= now /\ x.created \in Int
      BY <2>4, TransferIds DEF UniqueInv, PairedInv, TransfersPast, Transfer
    <3> QED
      BY <1>1, <3>1
  <2> QED
    BY <2>1, <2>2, <2>3, <2>4, <2>5, <2>6 DEF TrueAnswer, SameRequest
<1>4. ASSUME NEW code, NEW reason, ErrBecause(code, reason, fault)
      PROVE  FALSE
  BY <1>4 DEF ErrBecause, Reply, Observation
<1> QED
  BY <1>2, <1>3, <1>4 DEF CreateTransfer, Refuse, Err

LEMMA CreateInvStep ==
  ASSUME KeysReserved
  PROVE  CreateInv /\ [Next]_vars => CreateInv'
<1> SUFFICES ASSUME CreateInv, [Next]_vars PROVE CreateInv'
  OBVIOUS
<1>1. UniqueInv' /\ TransfersPast' /\ TypeInv /\ TypeInv'
  BY UniqueStep, TransfersPastStep, TypeInvStep DEF CreateInv, UniqueInv, PairedInv
<1>2. CASE UNCHANGED vars
  <2>1. CreateAnswersTruthfully'
    BY <1>2 DEF CreateInv, CreateAnswersTruthfully, vars, worldVars, clockVars, moneyVars,
       replyVars
  <2> QED
    BY <1>1, <2>1 DEF CreateInv
<1>3. ASSUME NEW c \in Calls, Step(c)
      PROVE  CreateInv'
  <2>1. call' = c
    BY <1>3 DEF Step
  <2>2. ASSUME c.tool = "create_transfer", obs'.kind = "tool_result"
        PROVE  TrueAnswer(transfers', c.args, obs'.result, now')
    <3>1. c.args \in ArgsOf("create_transfer") /\ Handle(c, DueFault(c.tool))
      BY <1>3, <2>2, AnsweredByHandler
    <3>2. CreateTransfer(c.args, DueFault(c.tool))
      BY <2>2, <3>1 DEF Handle
    <3>3. Entered /\ now' > now
      <4>1. now \in Nat /\ now' \in Nat /\ ToolsTypeOK /\ stepIndex \in Nat
        BY <1>1, TypesAsParts DEF TypeInv, TypeOK, WorldTypeOK
      <4> QED
        BY <1>3, <4>1, WorldAssumption DEF Entered, Step, Tick
    <3> QED
      BY <2>2, <3>1, <3>2, <3>3, CreateAnswered DEF CreateInv
  <2>3. CreateAnswersTruthfully'
    BY <2>1, <2>2 DEF CreateAnswersTruthfully, TrueAnswer
  <2> QED
    BY <1>1, <2>3 DEF CreateInv
<1> QED
  BY <1>2, <1>3 DEF Next, AfterEpisode

\* For every episode whose history is past and settled and whose reversals' keys are
\* nobody else's: a success of create_transfer names a payment that is the caller's request
\* to the last field and holds its key, and calls it a replay exactly when it was made
\* earlier (_create_transfer_body).
THEOREM CreateAnswers ==
  HistorySettled /\ HistoryPast /\ KeysReserved => (Spec => []CreateAnswersTruthfully)
<1> SUFFICES ASSUME HistorySettled, HistoryPast, KeysReserved
             PROVE  Spec => []CreateAnswersTruthfully
  OBVIOUS
<1>1. Init => CreateInv
  <2> SUFFICES ASSUME Init PROVE CreateInv
    OBVIOUS
  <2>1. UniqueInv
    BY TypeInvInit DEF Init, FromFixture, HistorySettled, KeysReserved, UniqueInv, PairedInv,
       ReversalPaired, KeysTell, IdempotencyUnique
  <2>2. TransfersPast
    BY DEF Init, FromFixture, HistoryPast, TransfersPast
  <2>3. CreateAnswersTruthfully
    BY DEF Init, Observation, CreateAnswersTruthfully
  <2> QED
    BY <2>1, <2>2, <2>3 DEF CreateInv
<1>2. CreateInv => CreateAnswersTruthfully
  BY DEF CreateInv
<1>3. CreateInv /\ [Next]_vars => CreateInv'
  BY CreateInvStep
<1> QED
  BY <1>1, <1>2, <1>3, PTL DEF Spec

(***************************************************************************)
(* The statuses a read shows.  Every snapshot a stale answer may come from *)
(* agrees with what the transfers say of the time it is stamped with.  An  *)
(* age that reaches past the snapshots of the statuses, into the seeded    *)
(* history of an account, shows the first statuses under an older time;    *)
(* that they are right then too needs that no transfer was reversed before *)
(* the episode began, and that the seeds are older than it.                *)
(***************************************************************************)
SeedPast ==
  \A a \in Accounts : \A k \in DOMAIN HistorySeed[a] : HistorySeed[a][k].at <= StartTime

SeedLen(a) == Len(HistorySeed[a])

\* When the k-th snapshot since the reset was taken, for the reader of account a.
TakenAt(a, k) == balanceHistory[a][SeedLen(a) + k].at

ReversalsLate ==
  \A i \in DOMAIN transfers :
    transfers[i].reversedBy # NoId => transfers[transfers[i].reversedBy].created > StartTime

SeedsKept ==
  \A a \in Accounts :
    /\ Len(balanceHistory[a]) = SeedLen(a) + Len(transferHistory)
    /\ \A k \in 1..SeedLen(a) : balanceHistory[a][k] = HistorySeed[a][k]

SnapshotsTrue ==
  \A k \in 1..Len(transferHistory) :
    /\ DOMAIN transferHistory[k] \subseteq DOMAIN transfers
    /\ \A a \in Accounts :
         /\ TakenAt(a, k) <= now
         /\ \A i \in DOMAIN transferHistory[k] : transferHistory[k][i] = StatusAt(i, TakenAt(a, k))

FirstStatuses ==
  /\ Len(transferHistory) >= 1
  /\ \A i \in DOMAIN transferHistory[1] : transferHistory[1][i] = "COMPLETED"

ReadInv ==
  /\ ExactInv
  /\ StartTime <= now
  /\ ReversalsLate
  /\ SeedsKept
  /\ SnapshotsTrue
  /\ FirstStatuses
  /\ ReadStatusTruthful

\* The status that a sequence of transfers gives its i-th at a time.
Was(ts, i, time) ==
  LET r == ts[i].reversedBy IN
  IF r # NoId /\ ts[r].created < time THEN "REVERSED" ELSE "COMPLETED"

LEMMA WasStatus == \A i, time : StatusAt(i, time) = Was(transfers, i, time)
BY DEF StatusAt, Was

\* No step changes what the transfers say of the time up to its own clock.
LEMMA PastFixed ==
  ASSUME ExactInv, [Next]_vars
  PROVE  /\ DOMAIN transfers \subseteq DOMAIN transfers'
         /\ \A i \in DOMAIN transfers : \A time \in Int :
              time <= now' => Was(transfers', i, time) = Was(transfers, i, time)
<1> DEFINE n == Len(transfers)
<1>1. /\ TypeInv /\ n \in Nat /\ DOMAIN transfers = 1..n /\ now' \in Nat
      /\ DOMAIN transfers' = 1..Len(transfers')
  <2>1. TypeInv /\ TypeInv'
    BY TypeInvStep DEF ExactInv, PairedInv
  <2>2. transfers' \in Seq(Transfer) /\ now' \in Nat
    BY <2>1 DEF TypeInv, TypeOK, WorldTypeOK
  <2> QED
    BY <2>1, <2>2, TransferIds, LenProperties
<1>2. \A i \in 1..n : transfers[i].reversedBy # NoId => transfers[i].reversedBy \in 1..n
  BY <1>1 DEF ExactInv, PairedInv, ReversalPaired
<1>3. CASE UNCHANGED transfers
  BY <1>3 DEF Was
<1>4. ASSUME Entered, NEW a, Pays(a)
      PROVE  /\ 1..n \subseteq DOMAIN transfers'
             /\ \A i \in 1..n : \A time \in Int :
                  time <= now' => Was(transfers', i, time) = Was(transfers, i, time)
  <2>1. Len(transfers') = n + 1 /\ \A i \in 1..n : transfers'[i] = transfers[i]
    BY <1>4, PaymentAppended
  <2> QED
    BY <1>1, <1>2, <2>1 DEF Was
<1>5. ASSUME Entered, TransfersBounded, StepsBounded, stepIndex \in Nat, NEW a, Returns(a)
      PROVE  /\ 1..n \subseteq DOMAIN transfers'
             /\ \A i \in 1..n : \A time \in Int :
                  time <= now' => Was(transfers', i, time) = Was(transfers, i, time)
  <2> DEFINE o == a.transfer
             new == ReversalOf(a.transfer, a.reason)
  <2>1. /\ Len(transfers') = n + 1 /\ transfers'[n + 1] = new
        /\ \A i \in 1..n : i # o => transfers'[i] = transfers[i]
        /\ transfers'[o] = [transfers[o] EXCEPT !.status = "REVERSED", !.reversedBy = n + 1]
        /\ o \in 1..n /\ transfers[o].reversedBy = NoId
    BY <1>5, ReversalAppended
  <2>2. transfers'[o].reversedBy = n + 1
    <3>1. transfers[o] \in Transfer
      BY <1>1, <2>1, TransferIds
    <3>2. \A x \in Transfer : [x EXCEPT !.status = "REVERSED", !.reversedBy = n + 1].reversedBy
                                = n + 1
      BY DEF Transfer
    <3> QED
      BY <2>1, <3>1, <3>2
  <2>3. new.created = now'
    BY DEF ReversalOf
  <2>4. \A i \in 1..n : transfers'[i].created = transfers[i].created
    BY <1>1, <1>5, ReversalKeeps
  <2> HIDE DEF o, new
  <2>5. ASSUME NEW i \in 1..n, NEW time \in Int, time <= now'
        PROVE  Was(transfers', i, time) = Was(transfers, i, time)
    <3>1. CASE i = o
      <4>1. ~(now' < time)
        BY <1>1, <2>5
      <4> QED
        BY <2>1, <2>2, <2>3, <3>1, <4>1 DEF Was
    <3>2. CASE i # o
      <4>1. transfers'[i].reversedBy = transfers[i].reversedBy
        BY <2>1, <3>2
      <4> QED
        BY <1>2, <2>4, <4>1 DEF Was
    <3> QED
      BY <3>1, <3>2
  <2> QED
    BY <1>1, <2>1, <2>5
<1> QED
  BY <1>1, <1>3, <1>4, <1>5, StepEffects DEF ExactInv, PairedInv, Asks

\* The clock a step ticks to finds every status the way the transfers tell it.
LEMMA StatusNow ==
  ASSUME ExactInv, now < now', now' \in Nat, NEW i \in DOMAIN transfers
  PROVE  transfers[i].status = Was(transfers, i, now')
<1>1. /\ transfers[i] \in Transfer /\ now \in Nat
      /\ transfers[i].status = "REVERSED" <=> transfers[i].reversedBy # NoId
  BY TransferIds DEF ExactInv, PairedInv, ReversalExact, TypeInv, TypeOK, WorldTypeOK
<1>2. transfers[i].status \in {"COMPLETED", "REVERSED"}
  BY <1>1 DEF Transfer
<1>3. ASSUME transfers[i].reversedBy # NoId
      PROVE  transfers[transfers[i].reversedBy].created < now'
  <2> DEFINE r == transfers[i].reversedBy
  <2>1. r \in DOMAIN transfers
    BY <1>3 DEF ExactInv, PairedInv, ReversalPaired
  <2>2. transfers[r] \in Transfer /\ transfers[r].created <= now
    BY <2>1, TransferIds DEF ExactInv, PairedInv, TransfersPast
  <2> HIDE DEF r
  <2>3. transfers[r].created \in Int
    BY <2>2 DEF Transfer
  <2> QED
    BY <1>1, <2>2, <2>3 DEF r
<1> QED
  BY <1>1, <1>2, <1>3 DEF Was

\* tick appends one snapshot to each history.
LEMMA HistoriesGrow ==
  ASSUME TypeInv, Tick
  PROVE  LET n == Len(transferHistory) IN
         /\ n \in Nat /\ Len(transferHistory') = n + 1
         /\ transferHistory'[n + 1] = StatusSnapshot
         /\ \A k \in 1..n : transferHistory'[k] = transferHistory[k]
         /\ \A a \in Accounts :
              LET m == Len(balanceHistory[a]) IN
              /\ m \in Nat /\ Len(balanceHistory'[a]) = m + 1
              /\ balanceHistory'[a][m + 1] = [at |-> now', balance |-> balance[a]]
              /\ \A k \in 1..m : balanceHistory'[a][k] = balanceHistory[a][k]
<1>1. /\ transferHistory \in Seq(Seq({"COMPLETED", "REVERSED"}))
      /\ balanceHistory \in [Accounts -> Seq(Snapshot)]
      /\ balance \in [Accounts -> Int] /\ now \in Nat
  BY DEF TypeInv, TypeOK, WorldTypeOK
<1>2. StatusSnapshot \in Seq({"COMPLETED", "REVERSED"})
  BY StatusesTyped DEF StatusSnapshot, TypeInv, TypeOK, WorldTypeOK
<1>3. transferHistory' = Append(transferHistory, StatusSnapshot)
  BY DEF Tick
<1>4. ASSUME NEW a \in Accounts
      PROVE  LET m == Len(balanceHistory[a]) IN
              /\ m \in Nat /\ Len(balanceHistory'[a]) = m + 1
              /\ balanceHistory'[a][m + 1] = [at |-> now', balance |-> balance[a]]
              /\ \A k \in 1..m : balanceHistory'[a][k] = balanceHistory[a][k]
  <2>1. balanceHistory'[a] = Append(balanceHistory[a], [at |-> now', balance |-> balance[a]])
    BY DEF Tick
  <2>2. [at |-> now', balance |-> balance[a]] \in Snapshot
    BY <1>1, WorldAssumption DEF Snapshot, Tick
  <2>3. balanceHistory[a] \in Seq(Snapshot)
    BY <1>1
  <2> QED
    BY <2>1, <2>2, <2>3, AppendProperties, LenProperties
<1>5. Len(transferHistory) \in Nat /\ Len(transferHistory') = Len(transferHistory) + 1
      /\ transferHistory'[Len(transferHistory) + 1] = StatusSnapshot
      /\ \A k \in 1..Len(transferHistory) : transferHistory'[k] = transferHistory[k]
  BY <1>1, <1>2, <1>3, AppendProperties, LenProperties
<1> QED
  BY <1>4, <1>5

\* The snapshots stay true: the new one by StatusNow, the old ones by PastFixed.
LEMMA SnapshotsStep ==
  ASSUME ReadInv, NEW c \in Calls, Step(c), [Next]_vars
  PROVE  /\ StartTime <= now' /\ now < now' /\ now' \in Nat
         /\ ReversalsLate' /\ SeedsKept' /\ SnapshotsTrue' /\ FirstStatuses'
<1> DEFINE n == Len(transferHistory)
<1>1. /\ TypeInv /\ ExactInv /\ Tick /\ now \in Nat
      /\ transferHistory \in Seq(Seq({"COMPLETED", "REVERSED"}))
      /\ HistorySeed \in [Accounts -> Seq(Snapshot)] /\ StartTime \in Nat
  BY WorldAssumption DEF ReadInv, ExactInv, PairedInv, TypeInv, TypeOK, WorldTypeOK, Step
<1>2. StartTime <= now' /\ now < now' /\ now' \in Nat
  BY <1>1, WorldAssumption DEF Tick, ReadInv
<1>3. /\ n \in Nat /\ n >= 1 /\ Len(transferHistory') = n + 1
      /\ transferHistory'[n + 1] = StatusSnapshot
      /\ \A k \in 1..n : transferHistory'[k] = transferHistory[k]
  BY <1>1, HistoriesGrow DEF ReadInv, FirstStatuses
<1>4. FirstStatuses'
  BY <1>3 DEF ReadInv, FirstStatuses
<1>5. ASSUME NEW a \in Accounts
      PROVE  /\ SeedLen(a) \in Nat
             /\ Len(balanceHistory[a]) = SeedLen(a) + n
             /\ Len(balanceHistory'[a]) = SeedLen(a) + n + 1
             /\ balanceHistory'[a][SeedLen(a) + n + 1].at = now'
             /\ \A k \in 1..(SeedLen(a) + n) : balanceHistory'[a][k] = balanceHistory[a][k]
             /\ \A k \in 1..SeedLen(a) : balanceHistory[a][k] = HistorySeed[a][k]
  <2>1. SeedLen(a) \in Nat /\ SeedLen(a)' = SeedLen(a)
    BY <1>1, LenProperties DEF SeedLen
  <2>2. /\ Len(balanceHistory[a]) = SeedLen(a) + n
        /\ \A k \in 1..SeedLen(a) : balanceHistory[a][k] = HistorySeed[a][k]
    BY DEF ReadInv, SeedsKept
  <2>3. LET m == Len(balanceHistory[a]) IN
        /\ Len(balanceHistory'[a]) = m + 1
        /\ balanceHistory'[a][m + 1] = [at |-> now', balance |-> balance[a]]
        /\ \A k \in 1..m : balanceHistory'[a][k] = balanceHistory[a][k]
    BY <1>1, HistoriesGrow
  <2> QED
    BY <2>1, <2>2, <2>3
<1>6. SeedsKept'
  <2>1. ASSUME NEW a \in Accounts
        PROVE  /\ Len(balanceHistory'[a]) = SeedLen(a) + Len(transferHistory')
               /\ \A k \in 1..SeedLen(a) : balanceHistory'[a][k] = HistorySeed[a][k]
    <3>1. \A k \in 1..SeedLen(a) : k \in 1..(SeedLen(a) + n)
      BY <1>3, <1>5
    <3>2. SeedLen(a) \in Nat /\ Len(balanceHistory'[a]) = SeedLen(a) + n + 1
      BY <1>5
    <3>3. SeedLen(a) + Len(transferHistory') = SeedLen(a) + n + 1
      BY <1>3, <3>2
    <3>4. \A k \in 1..SeedLen(a) : balanceHistory'[a][k] = HistorySeed[a][k]
      BY <1>5, <3>1
    <3> QED
      BY <3>2, <3>3, <3>4
  <2> QED
    BY <2>1 DEF SeedsKept, SeedLen
<1>7. SnapshotsTrue'
  <2>1. /\ DOMAIN transfers \subseteq DOMAIN transfers'
        /\ \A i \in DOMAIN transfers : \A time \in Int :
             time <= now' => Was(transfers', i, time) = Was(transfers, i, time)
    BY <1>1, PastFixed
  <2>2. ASSUME NEW k \in 1..n, NEW a \in Accounts
        PROVE  /\ TakenAt(a, k)' = TakenAt(a, k)
               /\ TakenAt(a, k) \in Int /\ TakenAt(a, k) <= now
               /\ \A i \in DOMAIN transferHistory[k] :
                    transferHistory[k][i] = Was(transfers, i, TakenAt(a, k))
    <3>1. TakenAt(a, k) <= now
          /\ \A i \in DOMAIN transferHistory[k] :
               transferHistory[k][i] = Was(transfers, i, TakenAt(a, k))
      BY WasStatus DEF ReadInv, SnapshotsTrue
    <3>2. SeedLen(a) + k \in 1..(SeedLen(a) + n)
      BY <1>3, <1>5
    <3>3. balanceHistory[a][SeedLen(a) + k] \in Snapshot
      <4>1. balanceHistory[a] \in Seq(Snapshot)
        BY <1>1 DEF TypeInv, TypeOK, WorldTypeOK
      <4> QED
        BY <1>5, <3>2, <4>1, ElementOfSeq
    <3> QED
      BY <1>5, <3>1, <3>2, <3>3 DEF TakenAt, SeedLen, Snapshot
  <2>3. ASSUME NEW k \in 1..n
        PROVE  /\ DOMAIN transferHistory'[k] \subseteq DOMAIN transfers'
               /\ \A a \in Accounts :
                    /\ TakenAt(a, k)' <= now'
                    /\ \A i \in DOMAIN transferHistory'[k] :
                         transferHistory'[k][i] = Was(transfers', i, TakenAt(a, k)')
    <3>1. /\ transferHistory'[k] = transferHistory[k]
          /\ DOMAIN transferHistory[k] \subseteq DOMAIN transfers
      BY <1>3 DEF ReadInv, SnapshotsTrue
    <3>2. ASSUME NEW a \in Accounts
          PROVE  /\ TakenAt(a, k)' <= now'
                 /\ \A i \in DOMAIN transferHistory[k] :
                      transferHistory[k][i] = Was(transfers', i, TakenAt(a, k)')
      <4>1. TakenAt(a, k) <= now'
        BY <1>1, <1>2, <2>2
      <4> QED
        BY <2>1, <2>2, <3>1, <4>1
    <3> QED
      BY <2>1, <3>1, <3>2
  <2>4. ASSUME NEW k, k = n + 1
        PROVE  /\ DOMAIN transferHistory'[k] \subseteq DOMAIN transfers'
               /\ \A a \in Accounts :
                    /\ TakenAt(a, k)' <= now'
                    /\ \A i \in DOMAIN transferHistory'[k] :
                         transferHistory'[k][i] = Was(transfers', i, TakenAt(a, k)')
    <3>1. ASSUME NEW a \in Accounts
          PROVE  TakenAt(a, k)' = now'
      <4>1. SeedLen(a) + k = SeedLen(a) + n + 1
        BY <1>3, <1>5, <2>4
      <4>2. balanceHistory'[a][SeedLen(a) + k].at = now'
        BY <1>5, <4>1
      <4> QED
        BY <4>2 DEF TakenAt, SeedLen
    <3>2. /\ DOMAIN StatusSnapshot = DOMAIN transfers
          /\ \A i \in DOMAIN transfers : StatusSnapshot[i] = transfers[i].status
      BY DEF StatusSnapshot
    <3>3. \A i \in DOMAIN transfers : StatusSnapshot[i] = Was(transfers', i, now')
      BY <1>1, <1>2, <2>1, <3>2, StatusNow
    <3>4. transferHistory'[k] = StatusSnapshot
      BY <1>3, <2>4
    <3> QED
      BY <1>2, <2>1, <3>1, <3>2, <3>3, <3>4
  <2>5. ASSUME NEW k \in 1..Len(transferHistory')
        PROVE  k = n + 1 \/ k \in 1..n
    BY <1>3
  <2>6. \A k \in 1..Len(transferHistory') :
          /\ DOMAIN transferHistory'[k] \subseteq DOMAIN transfers'
          /\ \A a \in Accounts :
               /\ TakenAt(a, k)' <= now'
               /\ \A i \in DOMAIN transferHistory'[k] :
                    transferHistory'[k][i] = Was(transfers', i, TakenAt(a, k)')
    BY <2>3, <2>4, <2>5
  <2> QED
    BY <2>6 DEF SnapshotsTrue, StatusAt, Was, TakenAt, SeedLen
<1>8. ReversalsLate'
  <2> DEFINE m == Len(transfers)
  <2>1. /\ DOMAIN transfers = 1..m /\ m \in Nat /\ DOMAIN transfers' = 1..Len(transfers')
        /\ \A i \in 1..m : transfers[i].reversedBy # NoId =>
             /\ transfers[i].reversedBy \in 1..m
             /\ transfers[transfers[i].reversedBy].created > StartTime
    <3>1. transfers' \in Seq(Transfer)
      BY <1>1, TypeInvStep DEF TypeInv, TypeOK, WorldTypeOK
    <3>2. ReversalPaired /\ ReversalsLate
      BY DEF ReadInv, ExactInv, PairedInv
    <3> QED
      BY <1>1, <3>1, <3>2, TransferIds, LenProperties DEF ReversalPaired, ReversalsLate
  <2>2. CASE UNCHANGED transfers
    BY <2>2 DEF ReadInv, ReversalsLate
  <2>3. ASSUME Entered, NEW a, Pays(a)
        PROVE  ReversalsLate'
    <3>1. Len(transfers') = m + 1 /\ transfers'[m + 1] = TransferOf(a)
          /\ \A i \in 1..m : transfers'[i] = transfers[i]
      BY <2>3, PaymentAppended
    <3>2. TransferOf(a).reversedBy = NoId
      BY DEF TransferOf
    <3>3. \A i \in 1..(m + 1) : i = m + 1 \/ i \in 1..m
      BY <2>1
    <3> QED
      BY <2>1, <3>1, <3>2, <3>3 DEF ReversalsLate
  <2>4. ASSUME Entered, TransfersBounded, StepsBounded, stepIndex \in Nat,
               NEW a, Returns(a)
        PROVE  ReversalsLate'
    <3> DEFINE o == a.transfer
               new == ReversalOf(a.transfer, a.reason)
    <3>1. /\ Len(transfers') = m + 1 /\ transfers'[m + 1] = new
          /\ \A i \in 1..m : i # o => transfers'[i] = transfers[i]
          /\ transfers'[o] = [transfers[o] EXCEPT !.status = "REVERSED", !.reversedBy = m + 1]
          /\ o \in 1..m
      BY <2>4, ReversalAppended
    <3>2. transfers'[o].reversedBy = m + 1
      <4>1. transfers[o] \in Transfer
        BY <1>1, <3>1, TransferIds
      <4>2. \A x \in Transfer :
              [x EXCEPT !.status = "REVERSED", !.reversedBy = m + 1].reversedBy = m + 1
        BY DEF Transfer
      <4> QED
        BY <3>1, <4>1, <4>2
    <3>3. new.created = now' /\ new.reversedBy = NoId
      BY DEF ReversalOf
    <3>4. \A i \in 1..m : transfers'[i].created = transfers[i].created
      BY <1>1, <2>4, ReversalKeeps
    <3>5. now' > StartTime
      BY <1>1, <1>2 DEF ReadInv
    <3> HIDE DEF o, new
    <3>6. ASSUME NEW i \in 1..(m + 1), transfers'[i].reversedBy # NoId
          PROVE  transfers'[transfers'[i].reversedBy].created > StartTime
      <4>1. CASE i = o
        BY <3>1, <3>2, <3>3, <3>5, <4>1
      <4>2. CASE i # o
        <5>1. i # m + 1
          BY <3>1, <3>3, <3>6
        <5>2. i \in 1..m /\ transfers'[i].reversedBy = transfers[i].reversedBy
          BY <2>1, <3>1, <4>2, <5>1
        <5> QED
          BY <2>1, <3>4, <3>6, <5>2
      <4> QED
        BY <4>1, <4>2
    <3> QED
      BY <2>1, <3>1, <3>6 DEF ReversalsLate
  <2> QED
    BY <1>1, <2>2, <2>3, <2>4, StepEffects DEF Asks
<1> QED
  BY <1>2, <1>4, <1>6, <1>7, <1>8

\* The faults that strike are of the plan, so their age is a number of snapshots.
LEMMA FaultAge ==
  ASSUME TypeInv, NEW tool
  PROVE  DueFault(tool).age \in Nat
<1>1. faults \subseteq Fault
  BY FaultAssumption DEF TypeInv, TypeOK, EpisodeTypeOK, ValidPlan
<1>2. CASE DueFaults(tool) = {}
  BY <1>2 DEF DueFault, NoFault
<1>3. CASE DueFaults(tool) # {}
  <2>1. PICK f \in DueFaults(tool) : DueFault(tool) = [kind |-> f.kind, age |-> f.age]
    BY <1>3 DEF DueFault
  <2>2. f \in Fault
    BY <1>1 DEF DueFaults
  <2> QED
    BY <2>1, <2>2 DEF Fault
<1> QED
  BY <1>2, <1>3

\* Whatever snapshot an answer comes from, it shows every status the way it was at the
\* time the answer is stamped with.
LEMMA SeenStatus ==
  ASSUME SeedPast, ReadInv, NEW c \in Calls, Step(c), [Next]_vars, UNCHANGED transfers,
         NEW fault, fault.age \in Nat, NEW a \in Accounts
  PROVE  \A i \in DOMAIN StatusesSeen(fault) :
           /\ i \in DOMAIN transfers
           /\ StatusesSeen(fault)[i] = Was(transfers, i, ReadTime(a, fault))
<1> DEFINE len == Len(transferHistory')
           seed == Len(HistorySeed[a])
           k == len - fault.age
           snapshots == balanceHistory'[a]
<1>1. /\ ExactInv /\ StartTime <= now' /\ now < now' /\ now' \in Nat
      /\ ReversalsLate' /\ SeedsKept' /\ SnapshotsTrue' /\ FirstStatuses'
  BY SnapshotsStep DEF ReadInv
<1>2. /\ seed \in Nat /\ StartTime \in Nat /\ HistorySeed \in [Accounts -> Seq(Snapshot)]
      /\ \A j \in 1..seed : HistorySeed[a][j].at \in Int /\ HistorySeed[a][j].at <= StartTime
  <2>1. HistorySeed[a] \in Seq(Snapshot)
    BY WorldAssumption
  <2>2. \A j \in 1..seed : HistorySeed[a][j] \in Snapshot
    BY <2>1, ElementOfSeq
  <2>3. seed \in Nat /\ DOMAIN HistorySeed[a] = 1..seed
    BY <2>1, LenProperties
  <2>4. \A j \in 1..seed : HistorySeed[a][j].at \in Int
    BY <2>2 DEF Snapshot
  <2> QED
    BY <2>3, <2>4, WorldAssumption DEF SeedPast
<1>3. /\ len \in Nat /\ len >= 1 /\ Len(snapshots) = seed + len
      /\ \A j \in 1..seed : snapshots[j] = HistorySeed[a][j]
  <2>1. len \in Nat
    <3>1. TypeInv'
      BY <1>1, TypeInvStep DEF ExactInv, PairedInv
    <3>2. transferHistory' \in Seq(Seq({"COMPLETED", "REVERSED"}))
      BY <3>1 DEF TypeInv, TypeOK, WorldTypeOK
    <3> QED
      BY <3>2, LenProperties
  <2> QED
    BY <1>1, <2>1 DEF SeedsKept, SeedLen, FirstStatuses
<1>4. \A j \in 1..len :
        /\ DOMAIN transferHistory'[j] \subseteq DOMAIN transfers
        /\ \A i \in DOMAIN transferHistory'[j] :
             transferHistory'[j][i] = Was(transfers, i, snapshots[seed + j].at)
  BY <1>1 DEF SnapshotsTrue, TakenAt, SeedLen, StatusAt, Was
<1>5. CASE ~Stale(fault)
  <2>1. StatusesSeen(fault) = StatusSnapshot /\ ReadTime(a, fault) = now'
    BY <1>5 DEF StatusesSeen, ReadTime
  <2> QED
    BY <1>1, <2>1, StatusNow DEF StatusSnapshot
<1>6. CASE Stale(fault)
  <2>1. /\ StatusesSeen(fault) = transferHistory'[HistoryIndex(len, fault.age)]
        /\ ReadTime(a, fault) = snapshots[HistoryIndex(Len(snapshots), fault.age)].at
    BY <1>6 DEF StatusesSeen, ReadTime, SnapshotOf
  <2>2. CASE k >= 1
    <3>1. /\ k \in 1..len
          /\ HistoryIndex(len, fault.age) = k
          /\ HistoryIndex(Len(snapshots), fault.age) = seed + k
      BY <1>2, <1>3, <2>2 DEF HistoryIndex
    <3> QED
      BY <1>4, <2>1, <3>1
  <2>3. CASE k < 1 /\ seed = 0
    <3>1. /\ 1 \in 1..len
          /\ HistoryIndex(len, fault.age) = 1
          /\ HistoryIndex(Len(snapshots), fault.age) = seed + 1
      BY <1>2, <1>3, <2>3 DEF HistoryIndex
    <3> QED
      BY <1>4, <2>1, <3>1
  <2>4. CASE k < 1 /\ seed # 0
    <3> DEFINE j == HistoryIndex(Len(snapshots), fault.age)
    <3>1. 1 \in 1..len /\ HistoryIndex(len, fault.age) = 1 /\ j \in 1..seed
      BY <1>2, <1>3, <2>4 DEF HistoryIndex
    <3>2. snapshots[j].at \in Int /\ snapshots[j].at <= StartTime
      BY <1>2, <1>3, <3>1
    <3>3. \A i \in DOMAIN transferHistory'[1] :
            i \in DOMAIN transfers /\ transferHistory'[1][i] = "COMPLETED"
      BY <1>1, <1>4, <3>1 DEF FirstStatuses
    <3>4. ASSUME NEW i \in DOMAIN transfers
          PROVE  Was(transfers, i, snapshots[j].at) = "COMPLETED"
      <4>1. CASE transfers[i].reversedBy = NoId
        BY <4>1 DEF Was
      <4>2. CASE transfers[i].reversedBy # NoId
        <5>1. transfers[i].reversedBy \in DOMAIN transfers
          BY <1>1, <4>2 DEF ExactInv, PairedInv, ReversalPaired
        <5>2. transfers[transfers[i].reversedBy].created \in Int
          BY <1>1, <5>1, TransferIds DEF ExactInv, PairedInv, Transfer
        <5>3. transfers[transfers[i].reversedBy].created > StartTime
          BY <4>2 DEF ReadInv, ReversalsLate
        <5>4. ~(transfers[transfers[i].reversedBy].created < snapshots[j].at)
          BY <1>2, <3>2, <5>2, <5>3
        <5> QED
          BY <5>4 DEF Was
      <4> QED
        BY <4>1, <4>2
    <3> QED
      BY <2>1, <3>1, <3>3, <3>4
  <2> QED
    BY <1>2, <1>3, <2>2, <2>3, <2>4
<1> QED
  BY <1>5, <1>6

LEMMA ReadInvStep ==
  ASSUME SeedPast
  PROVE  ReadInv /\ [Next]_vars => ReadInv'
<1> SUFFICES ASSUME ReadInv, [Next]_vars PROVE ReadInv'
  OBVIOUS
<1>1. ExactInv' /\ TypeInv
  BY ExactStep DEF ReadInv, ExactInv, PairedInv
<1>2. CASE UNCHANGED vars
  <2>1. /\ ReversalsLate' /\ SeedsKept' /\ SnapshotsTrue' /\ FirstStatuses'
        /\ StartTime <= now'
    BY <1>2 DEF ReadInv, ReversalsLate, SeedsKept, SeedLen, SnapshotsTrue, TakenAt, StatusAt,
       FirstStatuses, vars, worldVars, clockVars, moneyVars
  <2>2. ReadStatusTruthful'
    BY <1>2 DEF ReadInv, ReadStatusTruthful, ShownRows, StatusAt, vars, worldVars, moneyVars,
       replyVars
  <2> QED
    BY <1>1, <2>1, <2>2 DEF ReadInv
<1>3. ASSUME NEW c \in Calls, Step(c)
      PROVE  ReadInv'
  <2> DEFINE fault == DueFault(c.tool)
  <2>1. /\ ReversalsLate' /\ SeedsKept' /\ SnapshotsTrue' /\ FirstStatuses'
        /\ StartTime <= now'
    BY <1>3, SnapshotsStep
  <2>2. call' = c /\ fault.age \in Nat
    BY <1>1, <1>3, FaultAge DEF Step
  <2>3. ASSUME UNCHANGED transfers, NEW a \in Accounts,
               NEW i \in DOMAIN StatusesSeen(fault)
        PROVE  ShownTransfer(i, StatusesSeen(fault)).status
                 = Was(transfers', i, ReadTime(a, fault))
    <3>1. /\ i \in DOMAIN transfers
          /\ StatusesSeen(fault)[i] = Was(transfers, i, ReadTime(a, fault))
      BY <1>3, <2>2, <2>3, SeenStatus
    <3>2. transfers[i] \in Transfer
      BY <1>1, <3>1, TransferIds
    <3> HIDE DEF fault
    <3>3. ShownTransfer(i, StatusesSeen(fault)).status = StatusesSeen(fault)[i]
      BY <3>2 DEF ShownTransfer, Transfer
    <3> QED
      BY <2>3, <3>1, <3>3
  <2>4. ASSUME c.tool = "get_transfer", obs'.kind = "tool_result"
        PROVE  obs'.result.transfer.status = Was(transfers', obs'.result.id, obs'.observedAt)
    <3>1. GetTransfer(c.args, fault)
      BY <1>3, <2>4, AnsweredByHandler DEF Handle
    <3> DEFINE i == c.args.transfer
               row == [id |-> i, transfer |-> ShownTransfer(i, StatusesSeen(fault))]
    <3>2. /\ i \in DOMAIN StatusesSeen(fault)
          /\ ReadAt(row, ReadTime(PrincipalAccount, fault), fault)
      BY <2>4, <3>1 DEF GetTransfer, Refuse, Err, ErrBecause, Reply, Observation
    <3>3. obs'.result = row /\ obs'.observedAt = ReadTime(PrincipalAccount, fault)
          /\ UNCHANGED transfers
      BY <3>2 DEF ReadAt, OkAs, Reply, Observation, toolVars, moneyVars
    <3>4. PrincipalAccount \in Accounts
      BY WorldAssumption
    <3> QED
      BY <2>3, <3>2, <3>3, <3>4
  <2>5. ASSUME c.tool = "list_transfers", obs'.kind = "tool_result",
               NEW row \in obs'.result.transfers
        PROVE  row.transfer.status = Was(transfers', row.id, obs'.observedAt)
    <3>1. ListTransfers(c.args, fault)
      BY <1>3, <2>5, AnsweredByHandler DEF Handle
    <3> DEFINE a == c.args
               statuses == StatusesSeen(fault)
               ids == {i \in DOMAIN statuses : a.account \in {transfers[i].from, transfers[i].to}}
               rows == {[id |-> i, transfer |-> ShownTransfer(i, statuses),
                         out |-> transfers[i].from = a.account] : i \in Newest(ids, a.limit)}
    <3>2. /\ a.account \in OwnedAccounts
          /\ ReadAt([transfers |-> rows], ReadTime(a.account, fault), fault)
      BY <2>5, <3>1 DEF ListTransfers, Refuse, Err, ErrBecause, Reply, Observation
    <3>3. obs'.result.transfers = rows /\ obs'.observedAt = ReadTime(a.account, fault)
          /\ UNCHANGED transfers
      BY <3>2 DEF ReadAt, OkAs, Reply, Observation, toolVars, moneyVars
    <3>4. PICK i \in Newest(ids, a.limit) :
            row = [id |-> i, transfer |-> ShownTransfer(i, statuses),
                   out |-> transfers[i].from = a.account]
      BY <2>5, <3>3
    <3>5. i \in DOMAIN statuses
      BY DEF Newest
    <3>6. a.account \in Accounts
      BY <3>2, WorldAssumption
    <3> QED
      BY <2>3, <3>3, <3>4, <3>5, <3>6
  <2>6. ReadStatusTruthful'
    BY <2>2, <2>4, <2>5 DEF ReadStatusTruthful, ShownRows, StatusAt, Was
  <2> QED
    BY <1>1, <2>1, <2>6 DEF ReadInv
<1> QED
  BY <1>2, <1>3 DEF Next, AfterEpisode

\* For every episode whose history is past and settled: get_transfer and list_transfers
\* show every transfer with the status it had at the time the answer is stamped with, the
\* stale answers included (tick, _history_index, handle_get_transfer,
\* handle_list_transfers).
THEOREM ReadsStatus ==
  HistorySettled /\ HistoryPast /\ SeedPast => (Spec => []ReadStatusTruthful)
<1> SUFFICES ASSUME HistorySettled, HistoryPast, SeedPast
             PROVE  Spec => []ReadStatusTruthful
  OBVIOUS
<1>1. Init => ReadInv
  <2> SUFFICES ASSUME Init PROVE ReadInv
    OBVIOUS
  <2>1. /\ transfers = FixtureTransfers /\ now = StartTime
        /\ transferHistory = << [i \in DOMAIN FixtureTransfers |-> FixtureTransfers[i].status] >>
        /\ obs.kind = "reset" /\ StartTime \in Nat
    BY WorldAssumption DEF Init, FromFixture, Observation
  <2>2. ExactInv
    <3>1. ReversalExact
      BY <2>1, WorldAssumption DEF HistorySettled, ReversalExact
    <3>2. PairedInv
      BY <2>1, TypeInvInit DEF HistorySettled, PairedInv, ReversalPaired
    <3> QED
      BY <2>1, <3>1, <3>2 DEF HistoryPast, TransfersPast, ExactInv
  <2>3. ReversalsLate /\ FirstStatuses
    BY <2>1, WorldAssumption DEF HistorySettled, ReversalsLate, FirstStatuses
  <2>4. ASSUME NEW a \in Accounts
        PROVE  /\ SeedLen(a) \in Nat
               /\ Len(balanceHistory[a]) = SeedLen(a) + 1
               /\ balanceHistory[a][SeedLen(a) + 1].at = StartTime
               /\ \A k \in 1..SeedLen(a) : balanceHistory[a][k] = HistorySeed[a][k]
    <3>1. balanceHistory[a]
            = Append(HistorySeed[a], [at |-> StartTime, balance |-> InitialBalance[a]])
      BY DEF Init, FromFixture
    <3>2. [at |-> StartTime, balance |-> InitialBalance[a]] \in Snapshot
          /\ HistorySeed[a] \in Seq(Snapshot)
      BY WorldAssumption DEF Snapshot
    <3> QED
      BY <3>1, <3>2, AppendProperties, LenProperties DEF SeedLen
  <2>5. Len(transferHistory) = 1
    BY <2>1
  <2>6. SeedsKept
    BY <2>4, <2>5 DEF SeedsKept
  <2>7. SnapshotsTrue
    <3>1. \A k \in 1..Len(transferHistory) : k = 1
      BY <2>5
    <3>2. DOMAIN transferHistory[1] = DOMAIN transfers
          /\ \A i \in DOMAIN transferHistory[1] : transferHistory[1][i] = "COMPLETED"
      BY <2>1, WorldAssumption
    <3>3. \A i \in DOMAIN transfers : \A time : StatusAt(i, time) = "COMPLETED"
      BY <2>1 DEF HistorySettled, StatusAt
    <3>4. \A a \in Accounts : TakenAt(a, 1) <= now
      BY <2>1, <2>4 DEF TakenAt
    <3>5. \A i \in DOMAIN transferHistory[1] : \A time : transferHistory[1][i] = StatusAt(i, time)
      BY <3>2, <3>3
    <3> QED
      BY <3>1, <3>2, <3>4, <3>5 DEF SnapshotsTrue
  <2>8. ReadStatusTruthful
    BY <2>1 DEF ReadStatusTruthful, ShownRows
  <2> QED
    BY <2>1, <2>2, <2>3, <2>6, <2>7, <2>8 DEF ReadInv
<1>2. ReadInv => ReadStatusTruthful
  BY DEF ReadInv
<1>3. ReadInv /\ [Next]_vars => ReadInv'
  BY ReadInvStep
<1> QED
  BY <1>1, <1>2, <1>3, PTL DEF Spec
===============================================================================
