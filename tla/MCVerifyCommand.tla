-------------------------- MODULE MCVerifyCommand --------------------------
(* One code of each class stands for the class.                            *)
EXTENDS VerifyCommand, FiniteSets

ClassCodes == {"JOURNEY_ASSERTION_FAILED", "TIMEOUT", "RUNNER_FEATURE_UNAVAILABLE",
               "UNDECLARED_PORT_LISTEN", "CLEANUP_RESIDUE", "PROCESS_LEAK",
               "CLEANUP_FAILED", "RESOURCE_LIMIT_EXCEEDED"}

CandidateOutcomes ==
    {[errors |-> errors, returned |-> returned, cleanup |-> declared,
      observed |-> observed, emitted |-> 1, valid |-> valid, statuses |-> <<status>>,
      complete |-> complete] :
        errors \in {e \in SUBSET ClassCodes : Cardinality(e) <= 2},
        returned \in ClassCodes \cup {NoError},
        declared, observed \in Cleanup, valid \in BOOLEAN,
        status \in Statuses,
        complete \in SUBSET Required}

ContractOutcomes == {o \in CandidateOutcomes : MayReturn(o)}

\* Outcomes that agree with Build's cross-check one by one.
AgreeingOutcomes ==
    {o \in ContractOutcomes :
        o.cleanup = cleanupVerdict(o.observed, 1, o.errors)}

Preparation == {"SANDBOX_PREPARE_FAILED", "PLAN_UNRESOLVED"}
=============================================================================
