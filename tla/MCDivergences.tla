---------------------------- MODULE MCDivergences ----------------------------
(***************************************************************************)
(* Short episodes in which the code departs from its documents, one per    *)
(* configuration.                                                          *)
(***************************************************************************)
EXTENDS MCFixture

OpenPolicy == [Permissive("HARD") EXCEPT !.reversalWindow = Day]

\* A consent that is only advisory may be named by two transfers.
AdvisoryConsentPolicy ==
  [Permissive("SOFT") EXCEPT !.consentRequired = TRUE, !.consentTtl = Hour]
SharedConsentCalls ==
  {Consult("main", "ana", 4), Pay("main", "ana", 4, "k1", 1, ""),
   Pay("main", "ana", 4, "k2", 1, "")}

\* A payment to a key of the paying account itself.
SelfPaymentCalls == {Pay("main", "self", 4, "k1", NoId, "")}
==============================================================================
