------------------------------- MODULE MCReads -------------------------------
(***************************************************************************)
(* Stale reads around a payment and its reversal.  The main account brings *)
(* two snapshots from before the episode, so an age may reach past them;   *)
(* every other tool that only looks, and every call dispatch rejects, is   *)
(* in the mix.                                                             *)
(***************************************************************************)
EXTENDS MCFixture

ReadsPolicy == [Permissive("HARD") EXCEPT !.reversalWindow = Day]

ReadsSeed ==
  [NoSeed EXCEPT !["main"] = << [at |-> Noon - 2 * TickSeconds, balance |-> 8],
                               [at |-> Noon - TickSeconds, balance |-> 9] >>]

ReadsFaults ==
  {{AFault("get_account_balance", 1, "STALE_READ", 1),
    AFault("get_transfer", 1, "STALE_READ", 1),
    AFault("list_transfers", 1, "STALE_READ", 0)},
   {AFault("get_account_balance", 1, "STALE_READ", 9),
    AFault("get_account_balance", 2, "STALE_READ", 2),
    AFault("get_transfer", 1, "SERVICE_UNAVAILABLE", 0),
    AFault("get_transfer", 2, "STALE_READ", 9),
    AFault("list_transfers", 1, "STALE_READ", 2)},
   {AFault("lookup_pix_key", 1, "TIMEOUT_BEFORE_EXECUTE", 0)}}

ReadsCalls ==
  {Pay("main", "bob", 4, "k1", NoId, ""), TakeBack(1), BalanceOf("main"), BalanceOf("other"),
   Show(1), ListOf("main", 1), ListOf("main", 20), ListOf("other", 20), LookupKey("k1"),
   Do("lookup_pix_key", [key |-> "ana"]), Do("lookup_pix_key", [key |-> "no such key"]),
   Do("get_customer_profile", NoArgs), Do("list_beneficiaries", NoArgs),
   Do("ask_user", NoArgs), Do("get_transfer", Malformed), Do("delete_account", NoArgs)}
==============================================================================
