--------------------------- MODULE MCAuthorization ---------------------------
(***************************************************************************)
(* Consents and step-up approvals against the clock: a consent lives three *)
(* ticks, an approval four, one the customer arrives with two, and the     *)
(* user may refuse, stay silent, or see through a wrong scope.             *)
(***************************************************************************)
EXTENDS MCFixture, ServiceRefinement

AuthorizationPolicy ==
  [Permissive("HARD") EXCEPT !.consentRequired = TRUE, !.consentTtl = 3 * TickSeconds,
                             !.stepUpTtl = 4 * TickSeconds, !.stepUpThreshold = 4]

ArrivesStrong == [level |-> "STEP_UP", until |-> Noon + 2 * TickSeconds + 1]

AuthorizationScripts ==
  {Script(<< "GRANT" >>, << "APPROVE", "DENY" >>, FALSE),
   Script(<< "DENY", "GRANT" >>, << "DENY", "APPROVE" >>, FALSE),
   Script(<< "NO_RESPONSE", "GRANT" >>, << "NO_RESPONSE", "APPROVE" >>, FALSE),
   Script(<< "GRANT" >>, << "APPROVE" >>, TRUE)}

ExpectedByTask == {<<"ana", 4>>}

AuthorizationCalls ==
  {Consult("main", "ana", 4), Consult("main", "bob", 2), Consult("other", "ana", 4), StepUp,
   Pay("main", "ana", 4, "k1", 1, ""), Pay("main", "ana", 4, "k2", 1, ""),
   Pay("main", "ana", 4, "k2", 2, ""), Pay("main", "bob", 2, "k1", 1, ""),
   Pay("main", "ana", 3, "k1", NoId, "")}
==============================================================================
