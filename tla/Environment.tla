----------------------------- MODULE Environment -----------------------------
(***************************************************************************)
(* environment.py: one episode of PaymentsEnvironment, driven by an agent  *)
(* that may make any call at any time.  A step is atomic: the clock moves, *)
(* the call is counted and dispatched, the episode may end, and the        *)
(* ledger invariants are checked before the observation is returned.       *)
(***************************************************************************)
EXTENDS TransferTools, AuthorizeTools, ReadTools

CONSTANT MaxSteps  \* public.max_steps

VARIABLES
  done,         \* _done
  termination,  \* _termination
  declared,     \* _declared_outcome
  raised        \* a failed check_invariants left step() as an exception

episodeVars == <<done, termination, declared, raised>>
replyVars == <<stepIndex, call, obs, events>>
vars == <<worldVars, userVars, faultVars, replyVars, episodeVars>>

ASSUME EnvironmentAssumption ==
  /\ MaxSteps \in Nat \ {0}
  /\ DOMAIN RevKey = 1..(Len(FixtureTransfers) + MaxSteps)
  /\ RevKey \in [DOMAIN RevKey -> IdempotencyKeys]
  /\ IsInjective(RevKey)
  /\ None \notin Outcomes \cup {"FINISHED", "MAX_STEPS"}

(***************************************************************************)
(* reset                                                                   *)
(***************************************************************************)
Init ==
  /\ FromFixture
  /\ UserInit
  /\ FaultInit
  /\ stepIndex = 0
  /\ call = NoCall
  /\ obs = Observation("reset", None, None, None, StartTime)
  /\ events = << >>
  /\ done = FALSE
  /\ termination = None
  /\ declared = None
  /\ raised = FALSE

(***************************************************************************)
(* dispatch.  The schema is checked after the faults that prevent          *)
(* execution and before the others are recorded, so a malformed call uses  *)
(* up its fault without a FAULT_INJECTED event.                            *)
(***************************************************************************)
PreventsExecution(fault) == fault.kind \in {"SERVICE_UNAVAILABLE", "TIMEOUT_BEFORE_EXECUTE"}

Handle(c, fault) ==
  \/ c.tool = "get_customer_profile" /\ GetCustomerProfile(fault)
  \/ c.tool = "get_account_balance" /\ GetAccountBalance(c.args, fault)
  \/ c.tool = "list_beneficiaries" /\ ListBeneficiaries(fault)
  \/ c.tool = "lookup_pix_key" /\ LookupPixKey(c.args, fault)
  \/ c.tool = "check_transfer_policy" /\ CheckTransferPolicy(c.args, fault)
  \/ c.tool = "add_beneficiary" /\ AddBeneficiary(c.args, fault)
  \/ c.tool = "request_consent" /\ RequestConsent(c.args, fault)
  \/ c.tool = "request_step_up_auth" /\ RequestStepUpAuth(fault)
  \/ c.tool = "create_transfer" /\ CreateTransfer(c.args, fault)
  \/ c.tool = "get_transfer" /\ GetTransfer(c.args, fault)
  \/ c.tool = "get_transfer_by_idempotency_key" /\ GetTransferByIdempotencyKey(c.args, fault)
  \/ c.tool = "list_transfers" /\ ListTransfers(c.args, fault)
  \/ c.tool = "reverse_transfer" /\ ReverseTransfer(c.args, fault)
  \/ c.tool = "ask_user" /\ AskUser(fault)
  \/ c.tool = "finish" /\ Finish(c.args, fault)

DispatchCall(c, fault) ==
  \/ /\ c.tool \notin Tools
     /\ Refuse("UNKNOWN_TOOL", NoFault)
  \/ /\ c.tool \in Tools /\ PreventsExecution(fault)
     /\ Refuse(IF fault.kind = "SERVICE_UNAVAILABLE" THEN "SERVICE_UNAVAILABLE" ELSE "TIMEOUT",
               fault)
  \/ /\ c.tool \in Tools /\ ~PreventsExecution(fault) /\ c.args = Malformed
     /\ Refuse("INVALID_ARGUMENT", NoFault)
  \/ /\ c.tool \in Tools /\ ~PreventsExecution(fault) /\ c.args # Malformed
     /\ Handle(c, fault)

(***************************************************************************)
(* step.  A finish ends the episode even on the last allowed step.         *)
(***************************************************************************)
\* Mutant: the limit is noticed one step late.
LastStep_OffByOne == stepIndex' > MaxSteps

LastStep == stepIndex' >= MaxSteps

EndStep ==
  LET finished == obs'.kind = "final"
      truncated == ~finished /\ LastStep
  IN /\ done' = (finished \/ truncated)
     /\ termination' = IF finished THEN "FINISHED" ELSE IF truncated THEN "MAX_STEPS" ELSE None
     /\ declared' = IF finished THEN obs'.result.outcome ELSE None
     /\ raised' = ~CheckInvariants'

Step(c) ==
  /\ ~done /\ ~raised
  /\ stepIndex' = stepIndex + 1
  /\ Tick
  /\ call' = c
  /\ CheckFault(c.tool)
  /\ DispatchCall(c, DueFault(c.tool))
  /\ EndStep
  /\ UNCHANGED script

\* Afterwards step() answers EPISODE_FINISHED and changes nothing; a step that
\* raised ended the run.
AfterEpisode ==
  /\ done \/ raised
  /\ UNCHANGED vars

Next == (\E c \in Calls : Step(c)) \/ AfterEpisode

Spec == Init /\ [][Next]_vars
==============================================================================
