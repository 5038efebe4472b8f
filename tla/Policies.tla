------------------------------- MODULE Policies -------------------------------
(***************************************************************************)
(* policies.py: which policy rules a proposed transfer breaks.  Evaluation *)
(* changes nothing.  Every operator takes the time t of the evaluation,    *)
(* which is the clock after the step's tick.                               *)
(***************************************************************************)
EXTENDS World

\* The catalog order of evaluate_transfer_policy.
Catalog == << "PER_TRANSFER_LIMIT", "DAILY_LIMIT", "NIGHT_LIMIT", "KYC_AMOUNT_CAP",
              "BLOCKED_RECIPIENT", "NEW_BENEFICIARY_COOLING", "STEP_UP_REQUIRED",
              "CONSENT_REQUIRED" >>
Rules == Range(Catalog)
AuthRules == {"STEP_UP_REQUIRED", "CONSENT_REQUIRED"}
Modes == {"HARD", "SOFT", "SILENT"}

ASSUME PolicyAssumption ==
  /\ {Policy.perTransferLimit, Policy.dailyLimit, Policy.nightLimit, Policy.kycCap,
      Policy.stepUpThreshold} \subseteq Nat \cup {None}
  /\ Policy.nightWindow \in ((0..23) \X (0..23)) \cup {None}
  /\ Policy.blockedKeys \subseteq PixKeys
  /\ {Policy.cooling, Policy.consentTtl, Policy.stepUpTtl, Policy.reversalWindow} \subseteq Nat
  /\ Policy.consentRequired \in BOOLEAN
  /\ Policy.enforcement \in [Rules -> Modes]

\* Mutant: one centavo over the limit passes.
Exceeds_OffByOne(amount, limit) == limit # None /\ amount > limit + 1

Exceeds(amount, limit) == limit # None /\ amount > limit

\* in_window: the window may wrap midnight.
InNightWindow(t) ==
  LET start == Policy.nightWindow[1]
      end == Policy.nightWindow[2]
  IN IF start < end THEN start <= HourOf(t) /\ HourOf(t) < end
                    ELSE HourOf(t) >= start \/ HourOf(t) < end

\* _daily_used: today's COMPLETED outgoing transfers, reversals excluded.
CountsToday(x, account, t) ==
  /\ x.from = account
  /\ x.status = "COMPLETED"
  /\ x.reversalOf = NoId
  /\ DayOf(x.created) = DayOf(t)

DailyUsed(account, t) ==
  MapThenSumSet(LAMBDA i : transfers[i].amount,
                {i \in DOMAIN transfers : CountsToday(transfers[i], account, t)})

\* Mutant: a recipient never saved is not held back.
CoolingFires_SavedOnly(key, t) ==
  \E b \in Range(beneficiaries) :
    b.key = key /\ ~b.trusted /\ t - b.created < Policy.cooling

\* _cooling_fires: an unknown recipient, or an untrusted one saved too recently.
CoolingFires(key, t) ==
  LET matches == {b \in Range(beneficiaries) : b.key = key}
  IN matches = {} \/ \E b \in matches : ~b.trusted /\ t - b.created < Policy.cooling

\* Mutant: a consent that was used is not told from one that is granted.
ConsentValidity_Reusable(id, from, key, amount, t) ==
  IF id \notin DOMAIN consents THEN "NOT_FOUND"
  ELSE LET c == consents[id] IN
    IF c.expires <= t THEN "EXPIRED"
    ELSE IF c.status \notin {"GRANTED", "USED"} THEN "NOT_GRANTED"
    ELSE IF <<c.from, c.key, c.amount>> # <<from, key, amount>> THEN "SCOPE_MISMATCH"
    ELSE "VALID"

\* Mutant: a consent does not expire.
ConsentValidity_NoExpiry(id, from, key, amount, t) ==
  IF id \notin DOMAIN consents THEN "NOT_FOUND"
  ELSE LET c == consents[id] IN
    IF c.status # "GRANTED" THEN "NOT_GRANTED"
    ELSE IF <<c.from, c.key, c.amount>> # <<from, key, amount>> THEN "SCOPE_MISMATCH"
    ELSE "VALID"

\* consent_validity: "VALID", or the first reason the consent is not.
ConsentValidity(id, from, key, amount, t) ==
  IF id \notin DOMAIN consents THEN "NOT_FOUND"
  ELSE LET c == consents[id] IN
    IF c.status = "USED" THEN "ALREADY_USED"
    ELSE IF c.expires <= t THEN "EXPIRED"
    ELSE IF c.status # "GRANTED" THEN "NOT_GRANTED"
    ELSE IF <<c.from, c.key, c.amount>> # <<from, key, amount>> THEN "SCOPE_MISMATCH"
    ELSE "VALID"

(***************************************************************************)
(* evaluate_transfer_policy: the set of rules that fire.                   *)
(***************************************************************************)
Breaks(rule, from, key, amount, consent, t) ==
  \/ rule = "PER_TRANSFER_LIMIT" /\ Exceeds(amount, Policy.perTransferLimit)
  \/ rule = "DAILY_LIMIT" /\ Exceeds(DailyUsed(from, t) + amount, Policy.dailyLimit)
  \/ /\ rule = "NIGHT_LIMIT"
     /\ Policy.nightWindow # None /\ InNightWindow(t)
     /\ Exceeds(amount, Policy.nightLimit)
  \/ rule = "KYC_AMOUNT_CAP" /\ Exceeds(amount, Policy.kycCap)
  \/ rule = "BLOCKED_RECIPIENT" /\ key \in Policy.blockedKeys
  \/ rule = "NEW_BENEFICIARY_COOLING" /\ Policy.cooling > 0 /\ CoolingFires(key, t)
  \/ /\ rule = "STEP_UP_REQUIRED"
     /\ Policy.stepUpThreshold # None /\ amount >= Policy.stepUpThreshold
     /\ EffectiveAuthLevel(t) # "STEP_UP"
  \/ /\ rule = "CONSENT_REQUIRED"
     /\ Policy.consentRequired
     /\ consent = NoId \/ ConsentValidity(consent, from, key, amount, t) # "VALID"

Findings(from, key, amount, consent, t) ==
  {r \in Rules : Breaks(r, from, key, amount, consent, t)}

InMode(findings, mode) == {r \in findings : Policy.enforcement[r] = mode}

\* The finding that comes first in the catalog.
Position(rule) == CHOOSE n \in DOMAIN Catalog : Catalog[n] = rule

First(findings) ==
  CHOOSE r \in findings : \A q \in findings : Position(r) <= Position(q)
===============================================================================
