---------------------------- MODULE PaymentService ----------------------------
(***************************************************************************)
(* What the environment promises the agent as a payment service, told      *)
(* without transfers, ledger, clock or faults: a payment is made at most   *)
(* once per idempotency key, only with money that is there and, where the  *)
(* service asks for permits, by spending a permit for exactly that         *)
(* payment; it can be undone once, and then stays known under its key.     *)
(* The service may keep silent about what it did, but what it says of a    *)
(* key is true when it is said.                                            *)
(***************************************************************************)
EXTENDS Integers

CONSTANTS
  Accounts,    \* every account
  Payers,      \* the accounts the client pays from
  Directory,   \* payee -> the account it resolves to
  Keys,        \* idempotency keys
  Opening,     \* account -> the money it opens with
  Known,       \* the payments made before the service opens
  PermitIds,   \* names for permits
  Asks         \* whether a payment needs a permit

VARIABLES
  paid,     \* every payment ever made
  undone,   \* those among them that were given back
  permits,  \* the permits granted and not yet spent
  money,    \* account -> money
  said      \* what the service last told its client

serviceVars == <<paid, undone, permits, money, said>>

\* A payment goes to the account its payee resolves to.
Payment ==
  {p \in [idem: Keys, from: Payers, key: DOMAIN Directory, to: Accounts, amount: Nat \ {0}] :
     p.to = Directory[p.key]}
Permit == [id: PermitIds, from: Payers, key: DOMAIN Directory, amount: Nat \ {0}]
Covers(permit, p) == <<permit.from, permit.key, permit.amount>> = <<p.from, p.key, p.amount>>

Silence == [verdict |-> "silence"]
IsPaid(p) == [verdict |-> "paid", payment |-> p]
NotPaid(idem) == [verdict |-> "not paid", idem |-> idem]

Moved(from, to, amount) ==
  [a \in DOMAIN money |->
     money[a] + (IF a = to THEN amount ELSE 0) - (IF a = from THEN amount ELSE 0)]

Init ==
  /\ paid = Known
  /\ undone = {}
  /\ permits = {}
  /\ money = Opening
  /\ said = Silence

\* The actions are relations between two states: what is new is what was asked for.
Grant ==
  /\ \E permit \in permits' \ permits :
       /\ permit \in Permit
       /\ \A other \in permits : other.id # permit.id
       /\ permits' = permits \cup {permit}
  /\ said' = Silence
  /\ UNCHANGED <<paid, undone, money>>

Spend(p) ==
  \/ \E permit \in permits : Covers(permit, p) /\ permits' = permits \ {permit}
  \/ ~Asks /\ permits' = permits

Pay(p) ==
  /\ p \in Payment
  /\ \A q \in paid : q.idem # p.idem
  /\ p.amount <= money[p.from]
  /\ Spend(p)
  /\ paid' = paid \cup {p}
  /\ money' = Moved(p.from, p.to, p.amount)
  /\ said' \in {IsPaid(p), Silence}
  /\ UNCHANGED undone

Undo(p) ==
  /\ p \in paid \ undone
  /\ p.from \in Payers
  /\ undone' = undone \cup {p}
  /\ money' = Moved(p.to, p.from, p.amount)
  /\ said' = Silence
  /\ UNCHANGED <<paid, permits>>

TellPaid == \E p \in paid : said' = IsPaid(p)
TellNotPaid == \E idem \in Keys : (\A p \in paid : p.idem # idem) /\ said' = NotPaid(idem)

Tell ==
  /\ TellPaid \/ TellNotPaid \/ said' = Silence
  /\ UNCHANGED <<paid, undone, permits, money>>

Next ==
  \/ Tell
  \/ Grant
  \/ \E p \in paid' \ paid : Pay(p)
  \/ \E p \in undone' \ undone : Undo(p)

Spec == Init /\ [][Next]_serviceVars
===============================================================================
