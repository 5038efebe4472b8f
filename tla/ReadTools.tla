------------------------------ MODULE ReadTools ------------------------------
(***************************************************************************)
(* tools/read.py: the tools that only look.  Under a STALE_READ fault the  *)
(* balance and the transfer reads answer from the snapshots of tick; the   *)
(* step's own tick has already added one, so age 0 is the current value.   *)
(***************************************************************************)
EXTENDS Dispatch

Stale(fault) == fault.kind = "STALE_READ"

\* _history_index: an age beyond the history reads the oldest snapshot.
HistoryIndex(length, age) == IF length - age < 1 THEN 1 ELSE length - age

SnapshotOf(history, fault) == history[HistoryIndex(Len(history), fault.age)]

\* Mutant: a stale answer is stamped as a fresh one.
ReadTime_Now(account, fault) == now'

\* observed_at: when the account's snapshot was taken, or now.
ReadTime(account, fault) ==
  IF Stale(fault) THEN SnapshotOf(balanceHistory'[account], fault).at ELSE now'

\* _principal_can_see
Visible(i) == transfers[i].from \in OwnedAccounts \/ transfers[i].to \in OwnedAccounts

Read(result, fault) == Ok(result, fault) /\ UNCHANGED toolVars
ReadAt(result, time, fault) ==
  OkAs("tool_result", result, time, fault) /\ UNCHANGED toolVars

GetCustomerProfile(fault) ==
  Read([authLevel |-> EffectiveAuthLevel(now'), until |-> auth.until,
        dailyUsed |-> DailyUsed(PrincipalAccount, now')], fault)

GetAccountBalance(a, fault) ==
  \/ a.account \notin OwnedAccounts /\ Refuse("NOT_FOUND", fault)
  \/ /\ a.account \in OwnedAccounts
     /\ LET reported == IF Stale(fault) THEN SnapshotOf(balanceHistory'[a.account], fault).balance
                        ELSE balance[a.account]
        IN ReadAt([account |-> a.account, balance |-> reported],
                  ReadTime(a.account, fault), fault)

ListBeneficiaries(fault) == Read([beneficiaries |-> beneficiaries], fault)

LookupPixKey(a, fault) ==
  \/ a.key \notin PixKeys /\ Refuse("NOT_FOUND", fault)
  \/ a.key \in PixKeys /\ Read([key |-> a.key], fault)

(***************************************************************************)
(* check_transfer_policy: a dry run without a consent.  The account's      *)
(* status is not looked at, and the two authorization rules never count    *)
(* as violations.                                                          *)
(***************************************************************************)
Demands(findings, rule) ==
  rule \in findings /\ Policy.enforcement[rule] # "SILENT"

\* Mutant: the dry run reads the clock before the step's tick.
DryRunFindings_BeforeTick(a) == Findings(a.from, a.key, a.amount, NoId, now)

DryRunFindings(a) == Findings(a.from, a.key, a.amount, NoId, now')

DryRun(a) ==
  LET findings == DryRunFindings(a)
      violations == InMode(findings, "HARD") \ AuthRules
      sufficient == balance[a.from] >= a.amount
      failure == IF violations # {} THEN "POLICY_VIOLATION"
                 ELSE IF ~sufficient THEN "INSUFFICIENT_FUNDS" ELSE None
  IN [allowed |-> failure = None, wouldFailWith |-> failure, sufficient |-> sufficient,
      violations |-> violations, warnings |-> InMode(findings, "SOFT"),
      requiresStepUp |-> Demands(findings, "STEP_UP_REQUIRED"),
      requiresConsent |-> Demands(findings, "CONSENT_REQUIRED")]

CheckTransferPolicy(a, fault) ==
  \/ (a.from \notin OwnedAccounts \/ a.key \notin PixKeys) /\ Refuse("NOT_FOUND", fault)
  \/ a.from \in OwnedAccounts /\ a.key \in PixKeys /\ Read(DryRun(a), fault)

(***************************************************************************)
(* The transfer reads.  Only the status of a stale transfer is old: its    *)
(* other fields, reversed_by among them, are read from the live record.    *)
(***************************************************************************)
\* Mutant: the live statuses under a stale time.
StatusesSeen_Live(fault) == StatusSnapshot

StatusesSeen(fault) ==
  IF Stale(fault) THEN SnapshotOf(transferHistory', fault) ELSE StatusSnapshot

ShownTransfer(i, statuses) == [transfers[i] EXCEPT !.status = statuses[i]]

GetTransfer(a, fault) ==
  LET statuses == StatusesSeen(fault)
      found == a.transfer \in DOMAIN statuses /\ Visible(a.transfer)
  IN \/ ~found /\ Refuse("NOT_FOUND", fault)
     \/ found /\ ReadAt([id |-> a.transfer, transfer |-> ShownTransfer(a.transfer, statuses)],
                        ReadTime(PrincipalAccount, fault), fault)

GetTransferByIdempotencyKey(a, fault) ==
  LET id == Holder(a.idem)
      found == id # NoId /\ Visible(id)
  IN \/ ~found /\ Refuse("NOT_FOUND", fault)
     \/ found /\ Read([id |-> id, transfer |-> transfers[id]], fault)

\* list_transfers: the newest transfers of the account, as a set.
Newer(i, j) ==
  \/ transfers[i].created > transfers[j].created
  \/ transfers[i].created = transfers[j].created /\ i > j

Newest(ids, limit) == {i \in ids : Cardinality({j \in ids : Newer(j, i)}) < limit}

ListTransfers(a, fault) ==
  LET statuses == StatusesSeen(fault)
      ids == {i \in DOMAIN statuses : a.account \in {transfers[i].from, transfers[i].to}}
  IN \/ a.account \notin OwnedAccounts /\ Refuse("NOT_FOUND", fault)
     \/ /\ a.account \in OwnedAccounts
        /\ ReadAt([transfers |-> {[id |-> i, transfer |-> ShownTransfer(i, statuses),
                                   out |-> transfers[i].from = a.account] :
                                  i \in Newest(ids, a.limit)}],
                  ReadTime(a.account, fault), fault)
==============================================================================
