----------------------------- MODULE MCPayments -----------------------------
(***************************************************************************)
(* Payments, retries and reversals under faults.  The agent retries a key  *)
(* as it was, with another memo, or with a reversal's id; a timeout may    *)
(* strike either tool before or after it runs; the window for a reversal   *)
(* is two ticks; the fixture holds a payment made, one received, and one   *)
(* made from the account that is now blocked.                              *)
(***************************************************************************)
EXTENDS MCFixture, ServiceRefinement

PaymentsPolicy == [Permissive("HARD") EXCEPT !.reversalWindow = 2 * TickSeconds]

PastPayment(from, key, idem) ==
  [from |-> from, key |-> key, to |-> FixAccountOf[key], amount |-> 1,
   status |-> "COMPLETED", idem |-> idem, consent |-> NoId, memo |-> "",
   created |-> Noon - TickSeconds, completed |-> Noon - TickSeconds,
   reversalOf |-> NoId, reversedBy |-> NoId]

PaymentsHistory ==
  << PastPayment("main", "ana", "hist"), PastPayment("other", "self", "theirs"),
     PastPayment("closed", "ana", "old") >>

PaymentsFaults ==
  {{},
   {AFault("create_transfer", 1, "TIMEOUT_AFTER_EXECUTE", 0),
    AFault("reverse_transfer", 1, "TIMEOUT_AFTER_EXECUTE", 0)},
   {AFault("create_transfer", 2, "TIMEOUT_BEFORE_EXECUTE", 0),
    AFault("reverse_transfer", 2, "SERVICE_UNAVAILABLE", 0)}}

PaymentsCalls ==
  {Pay("main", "ana", 4, "k1", NoId, ""), Pay("main", "ana", 4, "k1", NoId, "again"),
   Pay("main", "ana", 7, "k2", NoId, ""), Pay("main", "ana", 1, "hist", NoId, ""),
   Pay("closed", "ana", 1, "k1", NoId, ""),
   Pay("main", "no such key", 1, "k1", NoId, ""),
   TakeBack(1), TakeBack(2), TakeBack(3), TakeBack(4), TakeBack(5), LookupKey("k1"), Finished("COMPLETED")}

PaymentsAgentKeys == {"k1", "k2", "hist"}
PaymentsKeys == PaymentsAgentKeys \cup {"theirs", "old"} \cup Range(FixRevKey)
==============================================================================
