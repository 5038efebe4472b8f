------------------------------ MODULE MCLimits ------------------------------
(***************************************************************************)
(* Limits against the clock: a tick is an hour, the episode starts at      *)
(* 20:00, the night window runs from 22:00 to 1:00 and the day changes     *)
(* inside it.  A recipient must have been saved two hours before.          *)
(***************************************************************************)
EXTENDS MCFixture

Evening == 20 * Hour

LimitsPolicy ==
  [Permissive("HARD") EXCEPT !.perTransferLimit = 5, !.dailyLimit = 6, !.kycCap = 5,
     !.nightWindow = <<22, 1>>, !.nightLimit = 3, !.cooling = 2 * TickSeconds,
     !.blockedKeys = {"eve"}, !.stepUpThreshold = 4, !.stepUpTtl = 2 * TickSeconds,
     !.reversalWindow = 3 * TickSeconds]

LimitsPixKeys == FixPixKeys \cup {"eve"}
LimitsAccountOf == FixAccountOf @@ ("eve" :> "acc_external")
LimitsBalance == [FixBalance EXCEPT !["main"] = 8]
Trusted(key) == [key |-> key, created |-> Evening - Day, trusted |-> TRUE]
LimitsBeneficiaries == << Trusted("bob"), Trusted("eve") >>
LimitsAgentKeys == {"k1", "k2", "k3"}
LimitsKeys == LimitsAgentKeys \cup Range(FixRevKey)

LimitsCalls ==
  {Save("ana"), Save("bob"), Save("no such key"), StepUp,
   Check("main", "bob", 4), Pay("main", "bob", 4, "k1", NoId, ""),
   Check("main", "ana", 3), Pay("main", "ana", 3, "k2", NoId, ""),
   Pay("main", "bob", 3, "k3", NoId, ""), Check("main", "bob", 6),
   Check("main", "eve", 1), Pay("main", "eve", 1, "k1", NoId, ""),
   Check("other", "bob", 1), TakeBack(1), TakeBack(2)}
==============================================================================
