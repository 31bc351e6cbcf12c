-------------------------- MODULE StateComparison --------------------------
(***************************************************************************)
(* How each of the four state packages compares an observation with the    *)
(* record it finds.                                                        *)
(***************************************************************************)
EXTENDS Naturals

ClassifyTrust(u, v) ==
    CASE v.generation < u.generation -> "rollback-rejected"
      [] v.generation = u.generation /\ v.digest # u.digest -> "equivocation-rejected"
      [] v.generation = u.generation /\ v.digest = u.digest -> "matched"
      [] v.generation > u.generation -> "advance"

ClassifyRelease(u, v) ==
    CASE v.generation < u.generation -> "rollback-rejected"
      [] v.generation = u.generation /\ v.digest # u.digest -> "equivocation-rejected"
      [] v.generation = u.generation /\ v.digest = u.digest -> "matched"
      [] v.generation > u.generation -> "advance"

\* The envelope digest is recorded and never compared: a re-signed transition
\* payload still matches.
ClassifyRotation(u, v) ==
    LET rollback == \/ v.transitionGeneration < u.transitionGeneration
                    \/ v.policyGeneration < u.policyGeneration
        authorityEquivocation ==
            /\ v.transitionGeneration = u.transitionGeneration
            /\ \/ v.transitionDigest # u.transitionDigest
               \/ v.terminal # u.terminal
        policyEquivocation ==
            /\ v.policyGeneration = u.policyGeneration
            /\ v.policyDigest # u.policyDigest
        same == /\ v.transitionGeneration = u.transitionGeneration
                /\ v.policyGeneration = u.policyGeneration
    IN  IF rollback THEN "rollback-rejected"
        ELSE IF authorityEquivocation THEN "authority-equivocation-rejected"
        ELSE IF policyEquivocation THEN "policy-equivocation-rejected"
        ELSE IF same THEN "matched"
        ELSE "advance"

ClassifyChain(u, v) ==
    LET rollback == \/ v.chainGeneration < u.chainGeneration
                    \/ v.policyGeneration < u.policyGeneration
        authorityEquivocation ==
            /\ v.chainGeneration = u.chainGeneration
            /\ \/ v.chainDigest # u.chainDigest
               \/ v.hopCount # u.hopCount
               \/ v.terminal # u.terminal
        policyEquivocation ==
            /\ v.policyGeneration = u.policyGeneration
            /\ v.policyDigest # u.policyDigest
        same == /\ v.chainGeneration = u.chainGeneration
                /\ v.policyGeneration = u.policyGeneration
    IN  IF rollback THEN "rollback-rejected"
        ELSE IF authorityEquivocation THEN "authority-equivocation-rejected"
        ELSE IF policyEquivocation THEN "policy-equivocation-rejected"
        ELSE IF same THEN "matched"
        ELSE "advance"
=============================================================================
