------------------------------- MODULE Bundle -------------------------------
(***************************************************************************)
(* internal/attestation's bundle: what Build seals and what Verify asks of *)
(* it.  A bundle is a sequence of [path, data] members; a digest is the    *)
(* thing digested.                                                         *)
(*                                                                         *)
(* A result has its identity, whether it is sealed (VerifyIntegrity and    *)
(* the public schema accept it), whether its plan selects an SBOM, whether *)
(* privacy.Evaluate accepts it, and the source, plan and runner it claims. *)
(* An SBOM has a form ("supplied" or "derived"), the inputs it is made of  *)
(* and whether it is clean; a provenance names a ruleset and the inputs:   *)
(* the tree and the two files read of it.                                  *)
(***************************************************************************)
EXTENDS TrustDocuments

bundlePaths(hasSBOM) ==
    IF hasSBOM THEN <<"attestation", "manifest", "verification", "sbom", "signature", "key">>
    ELSE <<"attestation", "manifest", "verification", "signature", "key">>

bundlePathsV2 == <<"attestation", "manifest", "verification", "sbom", "provenance", "signature", "key">>

buildCanonicalTarPaths(files, paths) ==
    [i \in DOMAIN paths |-> [path |-> paths[i], data |-> files[paths[i]]]]

Members(bundle) == {bundle[i].path : i \in DOMAIN bundle}

Member(bundle, path) == bundle[CHOOSE i \in DOMAIN bundle : bundle[i].path = path].data

Signer(bundle) == Member(bundle, "key").key

\* Exactly one of the three layouts, every member once and in its order.
parseCanonicalTarModel(bundle) ==
    LET hasSBOM == "sbom" \in Members(bundle)
        paths == IF "provenance" \in Members(bundle) THEN bundlePathsV2 ELSE bundlePaths(hasSBOM)
    IN  /\ Members(bundle) = Range(paths)
        /\ bundle = buildCanonicalTarPaths([p \in Members(bundle) |-> Member(bundle, p)], paths)

-----------------------------------------------------------------------------
(* The manifest names every payload member, the statement the manifest. *)

expectedManifest(result, sbom, key) ==
    [version |-> 1, verification |-> result, sbom |-> sbom, provenance |-> {}, key |-> key]

expectedManifestV2(result, sbom, provenance, key) ==
    [version |-> 2, verification |-> result, sbom |-> {sbom}, provenance |-> {provenance}, key |-> key]

expectedStatement(result, sbom, manifest) ==
    [version |-> 1, manifest |-> manifest, verification |-> result, sbom |-> sbom,
     source |-> result.source, plan |-> result.plan, runner |-> result.runner]

expectedStatementV2(result, sbom, provenance, manifest) ==
    [version |-> 2, manifest |-> manifest, verification |-> result, sbom |-> {sbom, provenance},
     source |-> result.source, plan |-> result.plan, runner |-> result.runner]

\* A derived SBOM is named after the inputs its provenance records.
ValidateDerivedPair(sbom, provenance) ==
    sbom.form = "derived" /\ sbom.inputs = provenance.inputs

\* privacy.EvaluateDerivedPair and privacy.Evaluate, by their answer.
privacyAccepts(part) == part.clean

\* The derived SBOM is of the very tree the result is about.
SubjectMatches(result, provenance) ==
    /\ result.source.commit = "none"
    /\ result.source.identity = result.source.tree
    /\ provenance.inputs.tree = result.source.tree

-----------------------------------------------------------------------------
(* Building.  sbom is {} or one attachment. *)

BuildWithSPDX(result, sbom, key) ==
    LET manifest == expectedManifest(result, sbom, key)
        statement == expectedStatement(result, sbom, manifest)
        hasSBOM == sbom # {}
        files == [p \in Range(bundlePaths(hasSBOM)) |->
                    CASE p = "attestation" -> statement
                      [] p = "manifest" -> manifest
                      [] p = "verification" -> result
                      [] p = "sbom" -> CHOOSE s \in sbom : TRUE
                      [] p = "signature" -> Signed("statement", key, statement)
                      [] p = "key" -> [key |-> key]]
    IN  IF /\ result.sealed
           /\ privacyAccepts(result)
           /\ result.wantsSBOM = hasSBOM
           /\ \A s \in sbom : s.form = "supplied" /\ privacyAccepts(s)
           /\ parsePublicKey(key)
        THEN {buildCanonicalTarPaths(files, bundlePaths(hasSBOM))} ELSE {}

BuildWithDerivedSPDX(result, sbom, provenance, key) ==
    LET manifest == expectedManifestV2(result, sbom, provenance, key)
        statement == expectedStatementV2(result, sbom, provenance, manifest)
        files == [p \in Range(bundlePathsV2) |->
                    CASE p = "attestation" -> statement
                      [] p = "manifest" -> manifest
                      [] p = "verification" -> result
                      [] p = "sbom" -> sbom
                      [] p = "provenance" -> provenance
                      [] p = "signature" -> Signed("statement", key, statement)
                      [] p = "key" -> [key |-> key]]
    IN  IF /\ result.sealed
           /\ privacyAccepts(result)
           /\ result.wantsSBOM
           /\ ValidateDerivedPair(sbom, provenance)
           /\ privacyAccepts(sbom)
           /\ SubjectMatches(result, provenance)
           /\ parsePublicKey(key)
        THEN {buildCanonicalTarPaths(files, bundlePathsV2)} ELSE {}

-----------------------------------------------------------------------------
(* Verifying.  The report says whether the bundle stands and who signed it. *)

\* The members present must be exactly those the manifest, the statement and
\* the signature derive from them.
Verify(bundle) ==
    /\ parseCanonicalTarModel(bundle)
    /\ LET result == Member(bundle, "verification")
           key == Signer(bundle)
           manifest == Member(bundle, "manifest")
           statement == Member(bundle, "attestation")
           envelope == Member(bundle, "signature")
           hasSBOM == "sbom" \in Members(bundle)
           derived == "provenance" \in Members(bundle)
           sbom == IF hasSBOM THEN {Member(bundle, "sbom")} ELSE {}
       IN  /\ result.sealed
           /\ parsePublicKey(key)
           /\ IF derived
              THEN /\ manifest = expectedManifestV2(result, Member(bundle, "sbom"),
                                                    Member(bundle, "provenance"), key)
                   /\ statement = expectedStatementV2(result, Member(bundle, "sbom"),
                                                      Member(bundle, "provenance"), manifest)
              ELSE /\ manifest = expectedManifest(result, sbom, key)
                   /\ statement = expectedStatement(result, sbom, manifest)
           /\ authentic(envelope, "statement", key)
           /\ envelope.payload = statement
           /\ result.wantsSBOM = hasSBOM
           /\ hasSBOM /\ ~derived => Member(bundle, "sbom").form = "supplied"
           /\ derived => /\ ValidateDerivedPair(Member(bundle, "sbom"), Member(bundle, "provenance"))
                         /\ SubjectMatches(result, Member(bundle, "provenance"))
           /\ \A s \in sbom : privacyAccepts(s)
           /\ privacyAccepts(result)

CheckExpectedBundleDigest(bundle, expected) == expected = {} \/ bundle \in expected

CheckExpectedTrustPolicyDigest(policy, expected) == policy \in expected

VerifyWithOfflineTrustPolicy(bundle, policy) ==
    IF Verify(bundle) THEN EvaluateSignerKeyID(policy, Signer(bundle)) ELSE "invalid"

\* The claims a bundle releases once its signer is accepted.
acceptedClaimsFromBundle(bundle) ==
    LET statement == Member(bundle, "attestation")
    IN  [source |-> statement.source, plan |-> statement.plan, runner |-> statement.runner,
         derived |-> IF "provenance" \in Members(bundle)
                     THEN {[provenance |-> Member(bundle, "provenance"),
                            sbom |-> Member(bundle, "sbom")]}
                     ELSE {}]

-----------------------------------------------------------------------------
(* The comparison of signed claims with what the machine shows now.  A      *)
(* current observation is a record of sets that hold at most one value, and *)
(* the reason something could not be observed.                              *)

SourceReasons == {"source-unavailable", "source-unstable", "source-identity-unavailable"}

supportedLocalSource(source) == source.commit = "none" /\ source.identity = source.tree

RunnerStableDigest(runner) == runner.comparable

Unknown(reason) == [evaluation |-> "unknown", reason |-> reason]
Stale(reason) == [evaluation |-> "stale", reason |-> reason]

\* The first dimension that differs or could not be observed decides.
EvaluateFreshness(historical, current) ==
    IF current.reason \in SourceReasons THEN Unknown(current.reason)
    ELSE IF ~supportedLocalSource(historical.source) THEN Unknown("source-identity-unavailable")
    ELSE IF current.source = {} THEN Unknown("source-unavailable")
    ELSE IF \E s \in current.source : ~supportedLocalSource(s)
    THEN Unknown("source-identity-unavailable")
    ELSE IF {historical.source} # current.source THEN Stale("source-changed")
    ELSE IF current.reason = "plan-unavailable" \/ current.plan = {} THEN Unknown("plan-unavailable")
    ELSE IF \E p \in current.plan : p.policy # historical.plan.policy THEN Stale("policy-changed")
    ELSE IF \E p \in current.plan : p.digest # historical.plan.digest THEN Stale("plan-changed")
    ELSE IF current.reason = "runner-unavailable" \/ current.runner = {}
    THEN Unknown("runner-unavailable")
    ELSE IF ~RunnerStableDigest(historical.runner) \/ \E r \in current.runner : ~RunnerStableDigest(r)
    THEN Unknown("runner-unavailable")
    ELSE IF {historical.runner} # current.runner THEN Stale("runner-changed")
    ELSE [evaluation |-> "current", reason |-> "none"]

normalizeSBOMCurrentnessReason(reason) ==
    IF reason \in {"", "source-unavailable", "source-unstable", "unsupported-inputs",
                   "derivation-failed", "privacy-blocked", "unknown-ruleset"}
    THEN reason ELSE "derivation-failed"

\* current is {} or one derivation [provenance, sbom]; Ruleset is this build's.
EvaluateSBOMCurrentness(historical, current, reason, Ruleset) ==
    IF historical.provenance.ruleset # Ruleset THEN Unknown("unknown-ruleset")
    ELSE IF current = {}
    THEN Unknown(IF normalizeSBOMCurrentnessReason(reason) = "" THEN "source-unavailable"
                 ELSE normalizeSBOMCurrentnessReason(reason))
    ELSE IF \E c \in current : c.provenance.ruleset # historical.provenance.ruleset
    THEN Unknown("unknown-ruleset")
    ELSE IF \E c \in current : c.provenance.inputs # historical.provenance.inputs
    THEN Stale("derivation-inputs-changed")
    ELSE IF \E c \in current : c.sbom # historical.sbom THEN Stale("canonical-sbom-changed")
    ELSE [evaluation |-> "fresh", reason |-> "none"]
=============================================================================
