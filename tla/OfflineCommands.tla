-------------------------- MODULE OfflineCommands --------------------------
(***************************************************************************)
(* The commands that work on signed documents without a network:           *)
(* verify-attestation, verify-release-index, attest, sign-release-index    *)
(* and the issuing commands, as several processes run them against the     *)
(* same durable trust state and the same directory.                        *)
(*                                                                         *)
(* The documents a command is given are inputs.  The durable stores are    *)
(* the registers that MonotonicStore implements: an observation answers    *)
(* truly or says unavailable, having advanced or not.  The directory is    *)
(* the source tree or the artifact directory the script's commands look    *)
(* at; somebody may edit it at any moment, and trees keeps all it has been.*)
(***************************************************************************)
EXTENDS Bundle, ReleaseDocuments, StateComparison, TreeWalk

CONSTANTS Scripts,      \* [commands : sequence of commands, tree, edits : how many, editable : paths]
          Ruleset       \* the derivation rules of this build

Verifying == {"verify-attestation", "verify-release-index"}

Issuable == {"policy", "transition", "chain", "release-policy", "release-transition", "release-chain"}

IsList(s) == Len(s) \in Nat /\ DOMAIN s = 1..Len(s)

\* What the decoders make of a document that says it is one: lists are lists,
\* entries have their members and no others, keys and paths can be ordered.
Decoded(c) ==
    LET policy == IF c.mode = "policy-v1" THEN c.policy ELSE c.policy.payload
    IN  /\ policy.kind \in {"policy-v1", "policy", "release-policy"} =>
             /\ IsList(policy.keys)
             /\ \A i \in DOMAIN policy.keys : policy.keys[i] \in [key : Nat, status : STRING]
        /\ c.chain.kind \in {"chain", "release-chain"} => IsList(c.chain.hops)
        /\ (c.op = "verify-release-index" /\ c.index.kind = "index") =>
             IsList(c.index.files) /\ \A i \in DOMAIN c.index.files : c.index.files[i].path \in Nat

DecodedBundle(bundle) ==
    \A i \in DOMAIN bundle :
      LET data == bundle[i].data
      IN  CASE bundle[i].path = "verification" -> data.wantsSBOM \in BOOLEAN
            [] bundle[i].path = "signature" -> data = [type |-> data.type, keyid |-> data.keyid,
                                                       signer |-> data.signer, payload |-> data.payload]
            [] bundle[i].path = "key" -> data = [key |-> data.key]
            [] bundle[i].path = "attestation" ->
                 data.plan = [policy |-> data.plan.policy, digest |-> data.plan.digest]
            [] bundle[i].path = "provenance" -> data = [inputs |-> data.inputs, ruleset |-> data.ruleset]
            [] OTHER -> TRUE

Lists(tree, path) == \E k \in DOMAIN tree : tree[k].path = path

\* What is compared with a manifest's directory is claimed of a tree with one.
ClaimsManifest(bundle) ==
    \A i \in DOMAIN bundle :
      bundle[i].path = "attestation" => Lists(bundle[i].data.source.tree, ManifestPath)

AtMostOne(set) == \A x, y \in set : x = y

\* The directory starts with contents no edit has left.
ASSUME TreesAssumption == \A s \in Scripts : DOMAIN s.tree = Paths /\ \A q \in Paths : s.tree[q].edit = 0

\* What the flags of a command may be: a floor is a number, a document or a
\* digest is given once, and state is kept only with a signed policy.
ASSUME ScriptsAssumption ==
    \A s \in Scripts : \A i \in DOMAIN s.commands :
      LET c == s.commands[i]
          modes == IF c.op = "verify-release-index" THEN {"direct", "rotated", "chained"}
                   ELSE IF c.persist THEN {"signed", "rotated", "chained"}
                   ELSE {"none", "key", "policy-v1", "signed", "rotated", "chained"}
      IN  /\ c.op \in Verifying =>
               /\ c.persist \in BOOLEAN /\ c.mode \in modes /\ Decoded(c)
               /\ c.minimum \in Nat /\ c.minimumAuthority \in Nat /\ AtMostOne(c.pin)
          /\ c.op = "verify-attestation" => /\ DecodedBundle(c.bundle) /\ AtMostOne(c.policyPin)
                                            /\ c.current => ClaimsManifest(c.bundle)
          /\ c.op = "attest" => c.result.wantsSBOM \in BOOLEAN /\ AtMostOne(c.sbom)
          /\ c.op = "issue" => c.what \in Issuable /\ IsList(c.hops)

VARIABLES script, pc, snaps, walk, plan, reg, trees, edits, since, after, result

vars == <<script, pc, snaps, walk, plan, reg, trees, edits, since, after, result>>

Procs == DOMAIN script.commands
Command(p) == script.commands[p]
Tree == Last(trees)

Running == [status |-> "running", trust |-> "none", reason |-> "none", evaluation |-> "none",
            made |-> {}, about |-> {}, until |-> 0]

-----------------------------------------------------------------------------
(* What each command observes in the durable stores. *)

LastHop(chain) == HopGeneration(chain, Len(chain.hops))

trustObservation(c) ==
    [store |-> "trust", key |-> c.authority,
     value |-> [generation |-> c.policy.payload.generation, digest |-> c.policy.payload]]

rotationObservation(c) ==
    [store |-> "rotation", key |-> c.root,
     value |-> [transitionGeneration |-> c.transition.payload.generation,
                transitionDigest |-> c.transition.payload, terminal |-> c.authority,
                policyGeneration |-> c.policy.payload.generation, policyDigest |-> c.policy.payload]]

chainObservation(c) ==
    [store |-> "chain", key |-> c.root,
     value |-> [chainGeneration |-> LastHop(c.chain), chainDigest |-> c.chain,
                hopCount |-> Len(c.chain.hops), terminal |-> c.authority,
                policyGeneration |-> c.policy.payload.generation, policyDigest |-> c.policy.payload]]

releaseAuthorityObservation(c) ==
    IF c.mode = "chained"
    THEN [store |-> "release-chain", key |-> c.root,
          value |-> [generation |-> LastHop(c.chain), digest |-> c.chain]]
    ELSE [store |-> "release-authority", key |-> c.root,
          value |-> [generation |-> c.transition.payload.generation, digest |-> c.transition.payload]]

releasePolicyObservation(c) ==
    [store |-> "release-policy", key |-> c.authority,
     value |-> [generation |-> c.policy.payload.generation, digest |-> c.policy.payload]]

releaseIndexObservation(c) ==
    [store |-> "release-index", key |-> c.authority,
     value |-> [generation |-> c.index.generation, digest |-> c.index]]

Classify(store, u, v) ==
    CASE store = "trust" -> ClassifyTrust(u, v)
      [] store = "rotation" -> ClassifyRotation(u, v)
      [] store = "chain" -> ClassifyChain(u, v)
      [] OTHER -> ClassifyRelease(u, v)

Recorded(o) == {r \in reg : r.store = o.store /\ r.key = o.key}

Evaluation(o) ==
    IF Recorded(o) = {} THEN "initialized"
    ELSE LET answer == Classify(o.store, (CHOOSE r \in Recorded(o) : TRUE).value, o.value)
         IN  IF answer = "advance" THEN "advanced" ELSE answer

AcceptedEvaluations == {"initialized", "advanced", "matched"}

\* Mutant: a store that cannot be used is taken for one that agrees.
acceptedStateEvaluationAny(evaluation) ==
    evaluation \in AcceptedEvaluations \cup {"unavailable"}

acceptedStateEvaluation(evaluation) == evaluation \in AcceptedEvaluations

\* One observation: the register moves when the observation advances it, and
\* the answer is the true one or "unavailable", whether it has moved or not.
Observe(o, evaluation) ==
    LET truth == Evaluation(o)
        moved == (reg \ Recorded(o)) \cup {o}
    IN  \/ /\ evaluation = truth
           /\ reg' = IF truth \in {"initialized", "advanced"} THEN moved ELSE reg
        \/ /\ evaluation = "unavailable"
           /\ reg' \in {reg} \cup (IF truth \in {"initialized", "advanced"} THEN {moved} ELSE {})

-----------------------------------------------------------------------------
(* The trust decision of verify-attestation before the durable state. *)

signedPolicy(c) ==
    LET parsed == ParseSignedOfflineTrustPolicy(c.policy, c.authority)
    IN  IF parsed # "ok" THEN "invalid-or-unavailable"
        ELSE VerifySignedOfflineTrustPolicyFloor(c.policy.payload, c.minimum)

verifyWithRotatedSignedOfflineTrustPolicy(c) ==
    IF ~ValidateOfflineTrustPolicyAuthorityTransitionKeyPair(c.root, c.authority)
    THEN "invalid-or-unavailable"
    ELSE IF ~VerifyOfflineTrustPolicyAuthorityTransition(c.transition, c.root, c.authority,
                                                         c.minimumAuthority)
    THEN "invalid-or-unavailable"
    ELSE LET parsed == ParseSignedOfflineTrustPolicy(c.policy, c.authority)
             floor == VerifySignedOfflineTrustPolicyFloor(c.policy.payload, c.minimum)
         IN  IF parsed = "role-conflict" THEN "authority-role-conflict"
             ELSE IF parsed # "ok" THEN "invalid-or-unavailable"
             ELSE IF floor # "ok" THEN floor
             ELSE IF EvaluateSignedSignerKeyID(c.policy.payload, c.root) # "not-listed"
             THEN "authority-role-conflict"
             ELSE "ok"

verifyWithChainedSignedOfflineTrustPolicy(c) ==
    IF ~ValidateOfflineTrustPolicyAuthorityTransitionKeyPair(c.root, c.authority)
    THEN "invalid-or-unavailable"
    ELSE IF ~VerifyOfflineTrustPolicyAuthorityTransitionChain(c.chain, c.root, c.authority,
                                                              c.minimumAuthority)
    THEN "invalid-or-unavailable"
    ELSE LET parsed == ParseSignedOfflineTrustPolicy(c.policy, c.authority)
             floor == VerifySignedOfflineTrustPolicyFloor(c.policy.payload, c.minimum)
             path == AuthorityKeyIDs(c.chain, c.root)
         IN  IF parsed = "role-conflict" THEN "authority-role-conflict"
             ELSE IF parsed # "ok" THEN "invalid-or-unavailable"
             ELSE IF floor # "ok" THEN floor
             ELSE IF \E i \in DOMAIN path :
                       EvaluateSignedSignerKeyID(c.policy.payload, path[i]) # "not-listed"
             THEN "authority-role-conflict"
             ELSE "ok"

\* "ok" for the signed modes means the policy stands and the signer is next.
TrustOf(c) ==
    CASE c.mode = "none" -> "none"
      [] c.mode = "key" ->
            IF parsePublicKey(c.authority) /\ c.authority = Signer(c.bundle) THEN "trusted" ELSE "key-mismatch"
      [] c.mode = "policy-v1" ->
            IF ~CheckExpectedTrustPolicyDigest(c.policy, c.policyPin) THEN "digest-mismatch"
            ELSE IF ~ParseOfflineTrustPolicy(c.policy) THEN "invalid-or-unavailable"
            ELSE VerifyWithOfflineTrustPolicy(c.bundle, c.policy)
      [] c.mode = "signed" -> signedPolicy(c)
      [] c.mode = "rotated" -> verifyWithRotatedSignedOfflineTrustPolicy(c)
      [] c.mode = "chained" -> verifyWithChainedSignedOfflineTrustPolicy(c)

attestationObservation(c) ==
    CASE c.mode = "signed" -> trustObservation(c)
      [] c.mode = "rotated" -> rotationObservation(c)
      [] c.mode = "chained" -> chainObservation(c)

-----------------------------------------------------------------------------
(* Endings. *)

Finish(p, outcome) ==
    /\ pc' = [pc EXCEPT ![p] = "done"]
    /\ result' = [result EXCEPT ![p] = [outcome EXCEPT !.until = Len(trees)]]

Goto(p, label) == pc' = [pc EXCEPT ![p] = label] /\ UNCHANGED result

Fail(p, reason) == Finish(p, [result[p] EXCEPT !.status = "error", !.reason = reason])

Reject(p, reason) ==
    Finish(p, [result[p] EXCEPT !.status = "error", !.trust = "rejected", !.reason = reason])

Accepted(p) == [result[p] EXCEPT !.status = "ok", !.trust = "accepted"]

\* The signer is accepted; the command ends unless it was asked for more.
Accept(p) ==
    IF Command(p).op = "verify-attestation" /\ Command(p).current
    THEN /\ pc' = [pc EXCEPT ![p] = "resolve"]
         /\ result' = [result EXCEPT ![p] = Accepted(p)]
    ELSE Finish(p, Accepted(p))

\* The decision on the bundle's signer.
DecideSigner(p, decision) ==
    IF decision = "trusted" THEN Accept(p) ELSE Reject(p, decision)

-----------------------------------------------------------------------------
(* verify-attestation. *)

VerifyAttestation(p) ==
    LET c == Command(p) IN
    /\ pc[p] = "start"
    /\ c.op = "verify-attestation"
    /\ IF ~CheckExpectedBundleDigest(c.bundle, c.pin) \/ ~Verify(c.bundle)
       THEN Fail(p, "invalid-bundle")
       ELSE LET trust == TrustOf(c)
            IN  IF trust # "ok" THEN DecideSigner(p, trust)
                ELSE Goto(p, IF c.persist THEN "policy-state" ELSE "signer")
    /\ UNCHANGED <<script, snaps, walk, plan, reg, trees, edits, since, after>>

ObservePolicyState(p) ==
    /\ pc[p] = "policy-state"
    /\ Command(p).op = "verify-attestation"
    /\ \E evaluation \in AcceptedEvaluations
            \cup {"unavailable", "rollback-rejected", "equivocation-rejected",
                  "authority-equivocation-rejected", "policy-equivocation-rejected"} :
         /\ Observe(attestationObservation(Command(p)), evaluation)
         /\ IF acceptedStateEvaluation(evaluation) THEN Goto(p, "signer") ELSE Reject(p, evaluation)
    /\ UNCHANGED <<script, snaps, walk, plan, trees, edits, since, after>>

VerifySigner(p) ==
    /\ pc[p] = "signer"
    /\ Command(p).op = "verify-attestation"
    /\ DecideSigner(p, VerifySignedOfflineTrustPolicySigner(Command(p).policy.payload,
                                                            Signer(Command(p).bundle)))
    /\ UNCHANGED <<script, snaps, walk, plan, reg, trees, edits, since, after>>

-----------------------------------------------------------------------------
(* Comparing the accepted claims, or a result to attest, with the tree.    *)
(* The tree is walked twice, used, and walked again.                       *)

Claims(p) == acceptedClaimsFromBundle(Command(p).bundle)

Purpose(p) == IF Command(p).op = "attest" THEN "attest"
              ELSE IF Claims(p).derived = {} THEN "freshness" ELSE "sbom"

DerivedClaims(p) == CHOOSE d \in Claims(p).derived : TRUE

Nothing == [reason |-> "none", source |-> {}, plan |-> {}, runner |-> {}]

\* The answer of a currentness check; only "current" and "fresh" are success.
Conclude(p, answer, about) ==
    Finish(p, [result[p] EXCEPT
        !.status = IF answer.evaluation \in {"current", "fresh"} THEN "ok" ELSE "error",
        !.reason = answer.reason, !.evaluation = answer.evaluation,
        !.about = IF answer.evaluation = "unknown" THEN {} ELSE about])

freshnessUnknown(p, current) == Conclude(p, EvaluateFreshness(Claims(p), current), {})

sbomCurrentnessUnknown(p, reason) ==
    Conclude(p, EvaluateSBOMCurrentness(DerivedClaims(p), {}, reason, Ruleset), {})

\* The tree could not be used for one of the reasons above.
Unusable(p, reason) ==
    CASE Purpose(p) = "attest" -> Fail(p, reason)
      [] Purpose(p) = "sbom" -> sbomCurrentnessUnknown(p, reason)
      [] Purpose(p) = "freshness" -> freshnessUnknown(p, [Nothing EXCEPT !.reason = reason])

\* evaluateCurrentFreshness asks git for a commit and reads the manifest
\* later; the derivations load the manifest first and never run git.
ResolveSource(p) ==
    /\ pc[p] = "resolve"
    /\ IF Purpose(p) = "freshness"
       THEN LET preflight == EvaluateFreshness(Claims(p), Nothing)
            IN  IF preflight.reason = "source-identity-unavailable"
                THEN Conclude(p, preflight, {})
                ELSE Goto(p, "list")
       ELSE \E loads \in {TRUE, FALSE} :
              /\ loads => Tree[ManifestPath].kind = "file"
              /\ IF loads THEN Goto(p, "list") ELSE Unusable(p, "source-unavailable")
    /\ UNCHANGED <<script, snaps, walk, plan, reg, trees, edits, since, after>>

ListTree(p) ==
    /\ pc[p] = "list"
    /\ \E begun \in fetchList(Tree) : walk' = [walk EXCEPT ![p] = begun]
    /\ Goto(p, "walk")
    /\ UNCHANGED <<script, snaps, plan, reg, trees, edits, since, after>>

VisitFile(p) ==
    /\ pc[p] = "walk"
    /\ walk[p].todo # <<>>
    /\ \E visited \in Fetch(walk[p], Tree) :
         /\ walk' = [walk EXCEPT ![p] = visited]
         /\ IF visited.ok THEN UNCHANGED <<pc, result>> ELSE Unusable(p, "source-unavailable")
    /\ UNCHANGED <<script, snaps, plan, reg, trees, edits, since, after>>

planSourceForSnapshot(snapshot) ==
    [identity |-> snapshot.identity, commit |-> snapshot.commit, tree |-> snapshot.tree]

\* What an answer rests on: the snapshot, and the manifest read between two.
About(snapshot, read) == {[tree |-> snapshot.tree, manifest |-> {r.digest[1] : r \in read}]}

\* The second snapshot agrees with the first: what is it good for?
UseSecond(p, snapshot) ==
    LET current == [Nothing EXCEPT !.source = {planSourceForSnapshot(snapshot)}]
        derivable == validateDerivedSnapshot(snapshot) /\ DerivedInputsListed(snapshot)
    IN  CASE Purpose(p) = "freshness" ->
               LET answer == EvaluateFreshness(Claims(p), current)
               IN  IF answer.reason = "plan-unavailable" THEN Goto(p, "plan")
                   ELSE Conclude(p, answer, About(snapshot, {}))
          [] Purpose(p) = "attest" ->
               IF planSourceForSnapshot(snapshot) # Command(p).result.source
               THEN Fail(p, "subject-mismatch")
               ELSE IF derivable THEN Goto(p, "lock") ELSE Unusable(p, "unsupported-inputs")
          [] Purpose(p) = "sbom" ->
               IF derivable THEN Goto(p, "lock") ELSE Unusable(p, "unsupported-inputs")

Derivation(snapshot) ==
    LET inputs == [tree |-> snapshot.tree,
                   files |-> entriesOf(snapshot, LockPath) \cup entriesOf(snapshot, PackagePath)]
    IN  [provenance |-> [inputs |-> inputs, ruleset |-> Ruleset],
         sbom |-> [form |-> "derived", inputs |-> inputs, clean |-> TRUE]]

\* The third snapshot agrees too: what was read in between belongs to it.
UseThird(p, snapshot) ==
    LET current == [Nothing EXCEPT !.source = {planSourceForSnapshot(snapshot)}, !.plan = plan[p]]
    IN  CASE Purpose(p) = "freshness" ->
               LET answer == EvaluateFreshness(Claims(p), current)
               IN  IF answer.reason = "runner-unavailable" /\ RunnerStableDigest(Claims(p).runner)
                   THEN Goto(p, "runner")
                   ELSE Conclude(p, answer, About(snapshot, plan[p]))
          [] Purpose(p) = "attest" -> Goto(p, "build")
          [] Purpose(p) = "sbom" ->
               Conclude(p, EvaluateSBOMCurrentness(DerivedClaims(p), {Derivation(snapshot)}, "", Ruleset),
                        About(snapshot, {}))

EndWalk(p) ==
    LET snapshot == snapshotOf(walk[p], Command(p).commit)
        taken == Append(snaps[p], snapshot)
    IN  /\ pc[p] = "walk"
        /\ walk[p].todo = <<>>
        /\ snaps' = [snaps EXCEPT ![p] = taken]
        /\ walk' = [walk EXCEPT ![p] = NoWalk]
        /\ IF Len(taken) = 1 THEN Goto(p, "list")
           ELSE IF ~sameSnapshotIdentity(taken[1], snapshot) THEN Unusable(p, "source-unstable")
           ELSE IF Len(taken) = 2 THEN UseSecond(p, snapshot) ELSE UseThird(p, snapshot)
        /\ UNCHANGED <<script, plan, reg, trees, edits, since, after>>

PlanOf(content, snapshot) ==
    [policy |-> content.edit % 2, digest |-> <<content, snapshot.tree>>]

\* manifest.Load and planner.Resolve: refuse, or a plan of what they read.
ReadPlan(p) ==
    /\ pc[p] = "plan"
    /\ \/ /\ Tree[ManifestPath].kind = "file"
          /\ plan' = [plan EXCEPT ![p] = {PlanOf(contentOf(Tree[ManifestPath]), snaps[p][2])}]
          /\ Goto(p, "list")
       \/ /\ freshnessUnknown(p, [Nothing EXCEPT !.source = {planSourceForSnapshot(snaps[p][2])},
                                                 !.reason = "plan-unavailable"])
          /\ UNCHANGED plan
    /\ UNCHANGED <<script, snaps, walk, reg, trees, edits, since, after>>

ReadDerivedInput(p) ==
    /\ pc[p] \in {"lock", "package"}
    /\ IF ~readDerivedInput(snaps[p][2], IF pc[p] = "lock" THEN LockPath ELSE PackagePath, Tree)
       THEN Unusable(p, "unsupported-inputs")
       ELSE IF pc[p] = "lock" THEN Goto(p, "package")
       ELSE \/ Goto(p, "list")
            \/ Unusable(p, "unsupported-inputs")       \* parsePackageLockV3 refuses them
            \/ Unusable(p, "privacy-blocked")
    /\ UNCHANGED <<script, snaps, walk, plan, reg, trees, edits, since, after>>

\* No runner, or one that may or may not be the historical one.
ProbeFreshnessRunner(p) ==
    LET current == [Nothing EXCEPT !.source = {planSourceForSnapshot(snaps[p][3])}, !.plan = plan[p]]
    IN  /\ pc[p] = "runner"
        /\ \/ freshnessUnknown(p, [current EXCEPT !.reason = "runner-unavailable"])
           \/ \E digest \in {1, 2} :
                Conclude(p, EvaluateFreshness(Claims(p),
                                [current EXCEPT !.runner = {[comparable |-> TRUE, digest |-> digest]}]),
                         About(snaps[p][3], plan[p]))
        /\ UNCHANGED <<script, snaps, walk, plan, reg, trees, edits, since, after>>

-----------------------------------------------------------------------------
(* attest. *)

Attest(p) ==
    LET c == Command(p) IN
    /\ pc[p] = "start"
    /\ c.op = "attest"
    /\ IF ~c.result.sealed \/ ~privacyAccepts(c.result) \/ c.result.wantsSBOM # (c.evidence # "none")
       THEN Fail(p, "evidence")
       ELSE IF c.evidence = "supplied" /\ \E s \in c.sbom : ~privacyAccepts(s) THEN Fail(p, "evidence")
       ELSE Goto(p, IF c.evidence = "derived" THEN "resolve" ELSE "build")
    /\ UNCHANGED <<script, snaps, walk, plan, reg, trees, edits, since, after>>

BuildBundle(p) ==
    LET c == Command(p)
        derived == Derivation(snaps[p][3])
        built == IF c.evidence = "derived"
                 THEN BuildWithDerivedSPDX(c.result, derived.sbom, derived.provenance, c.key)
                 ELSE BuildWithSPDX(c.result, c.sbom, c.key)
    IN  /\ pc[p] = "build"
        /\ IF built = {} THEN Fail(p, "signing")
           ELSE Finish(p, [result[p] EXCEPT !.status = "ok", !.made = built,
                               !.about = IF c.evidence = "derived" THEN About(snaps[p][3], {}) ELSE {}])
        /\ UNCHANGED <<script, snaps, walk, plan, reg, trees, edits, since, after>>

-----------------------------------------------------------------------------
(* verify-release-index. *)

releaseRotation(c) ==
    CASE c.mode = "direct" -> TRUE
      [] c.mode = "rotated" ->
            VerifyAuthorityTransition(c.transition, c.root, c.authority, c.minimumAuthority)
      [] c.mode = "chained" ->
            VerifyAuthorityTransitionChain(c.chain, c.root, c.authority, c.minimumAuthority)

\* The policy is read and verified once the authority has been observed.
ReleasePolicy(p) ==
    LET c == Command(p)
    IN  IF ~VerifyPolicy(c.policy, c.authority, c.minimum) THEN Reject(p, "policy")
        ELSE Goto(p, IF c.persist THEN "policy-state" ELSE "authorize")

VerifyReleaseIndex(p) ==
    LET c == Command(p) IN
    /\ pc[p] = "start"
    /\ c.op = "verify-release-index"
    /\ IF (\E x \in c.pin : ~CheckExpectedIndexDigest(c.index, x)) \/ ~ParseIndex(c.index)
       THEN Fail(p, "integrity")
       ELSE IF ~AuthenticateSignedIndex(c.index, c.envelope, c.signer, c.minimumRelease)
       THEN Fail(p, "signature")
       ELSE IF ~releaseRotation(c) THEN Reject(p, "authority")
       ELSE IF c.mode # "direct" /\ c.persist THEN Goto(p, "authority-state")
       ELSE ReleasePolicy(p)
    /\ UNCHANGED <<script, snaps, walk, plan, reg, trees, edits, since, after>>

\* One of the command's observations: the package's error is the command's.
ObserveRelease(p, o, next) ==
    \E evaluation \in AcceptedEvaluations
         \cup {"unavailable", "rollback-rejected", "equivocation-rejected"} :
      /\ Observe(o, evaluation)
      /\ IF evaluation \in AcceptedEvaluations THEN next ELSE Reject(p, evaluation)

ObserveAuthorityState(p) ==
    /\ pc[p] = "authority-state"
    /\ ObserveRelease(p, releaseAuthorityObservation(Command(p)), ReleasePolicy(p))
    /\ UNCHANGED <<script, snaps, walk, plan, trees, edits, since, after>>

ObserveReleasePolicy(p) ==
    /\ pc[p] = "policy-state"
    /\ Command(p).op = "verify-release-index"
    /\ ObserveRelease(p, releasePolicyObservation(Command(p)), Goto(p, "authorize"))
    /\ UNCHANGED <<script, snaps, walk, plan, trees, edits, since, after>>

Authorized(c) ==
    AuthorizeSignedIndex(c.index, c.signer, c.policy.payload, c.authority, c.minimumRelease)

\* Mutant: the index is recorded before the artifacts are looked at.
AuthorizeIndexRecordFirst(p) ==
    /\ pc[p] = "authorize"
    /\ IF ~Authorized(Command(p)) THEN Reject(p, "signer")
       ELSE Goto(p, IF Command(p).persist THEN "index-state" ELSE "scan")
    /\ UNCHANGED <<script, snaps, walk, plan, reg, trees, edits, since, after>>

AuthorizeIndex(p) ==
    /\ pc[p] = "authorize"
    /\ IF Authorized(Command(p)) THEN Goto(p, "scan") ELSE Reject(p, "signer")
    /\ UNCHANGED <<script, snaps, walk, plan, reg, trees, edits, since, after>>

\* The files the scan is told to expect, if any.
Expected(p) == IF Command(p).op = "verify-release-index" THEN {Command(p).index.files} ELSE {}

ScanList(p) ==
    /\ pc[p] = "scan"
    /\ walk' = [walk EXCEPT ![p] = scanList(Tree)]
    /\ IF /\ Len(names(Tree)) \in 1..FileLimit
          /\ \A e \in Expected(p) : pathsOf(e) = names(Tree)
       THEN Goto(p, "scanning") ELSE Fail(p, "artifacts")
    /\ UNCHANGED <<script, snaps, plan, reg, trees, edits, since, after>>

ScanFile(p) ==
    /\ pc[p] = "scanning"
    /\ walk[p].todo # <<>>
    /\ LET scanned == stableFile(walk[p], Tree)
       IN  /\ walk' = [walk EXCEPT ![p] = scanned]
           /\ IF scanned.ok THEN UNCHANGED <<pc, result>> ELSE Fail(p, "artifacts")
    /\ UNCHANGED <<script, snaps, plan, reg, trees, edits, since, after>>

ScanEnd(p) ==
    LET taken == Append(snaps[p], walk[p].entries) IN
    /\ pc[p] = "scanning"
    /\ walk[p].todo = <<>>
    /\ snaps' = [snaps EXCEPT ![p] = taken]
    /\ walk' = [walk EXCEPT ![p] = NoWalk]
    /\ IF ~scanArtifactRoot(walk[p], Tree, Expected(p)) THEN Fail(p, "artifacts")
       ELSE IF Len(taken) = 1 THEN Goto(p, "scan")
       ELSE IF taken[1] # taken[2] THEN Fail(p, "artifacts")
       ELSE Goto(p, "names")
    /\ UNCHANGED <<script, plan, reg, trees, edits, since, after>>

AboutArtifacts(p) == {[tree |-> snaps[p][2], manifest |-> {}]}

\* The last look at the names ends the inspection.
InspectedArtifacts(p) ==
    LET c == Command(p)
        built == BuildIndex(snaps[p][2], c.generation)
    IN  /\ pc[p] = "names"
        /\ IF names(Tree) # pathsOf(snaps[p][2]) THEN Fail(p, "artifacts")
           ELSE IF c.op = "sign-release-index"
           THEN IF built = {} \/ ~parseCanonicalSPKI(c.key) THEN Fail(p, "build")
                ELSE Finish(p, [result[p] EXCEPT !.status = "ok", !.about = AboutArtifacts(p),
                                    !.made = SignIndex(CHOOSE i \in built : TRUE, c.key)])
           ELSE IF snaps[p][2] # c.index.files THEN Fail(p, "artifacts")
           ELSE IF c.persist THEN Goto(p, "index-state")
           ELSE Finish(p, [Accepted(p) EXCEPT !.about = AboutArtifacts(p)])
        /\ UNCHANGED <<script, snaps, walk, plan, reg, trees, edits, since, after>>

ObserveIndexState(p) ==
    /\ pc[p] = "index-state"
    /\ ObserveRelease(p, releaseIndexObservation(Command(p)), Finish(p, Accepted(p)))
    /\ UNCHANGED <<script, snaps, walk, plan, trees, edits, since, after>>

-----------------------------------------------------------------------------
(* sign-release-index scans first; the other issuing commands only sign.   *)

SignReleaseIndex(p) ==
    /\ pc[p] = "start"
    /\ Command(p).op = "sign-release-index"
    /\ Goto(p, "scan")
    /\ UNCHANGED <<script, snaps, walk, plan, reg, trees, edits, since, after>>

runSignOfflineTrustPolicy(c) == SignOfflineTrustPolicy(c.generation, c.keys, c.key)

runSignOfflineTrustPolicyAuthorityTransition(c) ==
    SignOfflineTrustPolicyAuthorityTransition(c.next, c.generation, c.key)

runAssembleOfflineTrustPolicyAuthorityChain(c) ==
    BuildOfflineTrustPolicyAuthorityTransitionChain(c.hops, c.key)

runSignReleasePolicy(c) ==
    IF ParsePolicyPayload(c.payload) THEN SignPolicyWithAuthority(c.payload, c.key) ELSE {}

runSignReleaseAuthorityTransition(c) == SignAuthorityTransition(c.next, c.generation, c.key)

runAssembleReleaseAuthorityChain(c) == BuildAuthorityTransitionChain(c.hops, c.key)

Issued(c) ==
    CASE c.what = "policy" -> runSignOfflineTrustPolicy(c)
      [] c.what = "transition" -> runSignOfflineTrustPolicyAuthorityTransition(c)
      [] c.what = "chain" -> runAssembleOfflineTrustPolicyAuthorityChain(c)
      [] c.what = "release-policy" -> runSignReleasePolicy(c)
      [] c.what = "release-transition" -> runSignReleaseAuthorityTransition(c)
      [] c.what = "release-chain" -> runAssembleReleaseAuthorityChain(c)

Issue(p) ==
    /\ pc[p] = "start"
    /\ Command(p).op = "issue"
    /\ IF Issued(Command(p)) = {} THEN Fail(p, "signing")
       ELSE Finish(p, [result[p] EXCEPT !.status = "ok", !.made = Issued(Command(p))])
    /\ UNCHANGED <<script, snaps, walk, plan, reg, trees, edits, since, after>>

-----------------------------------------------------------------------------
Begin(p) ==
    /\ pc[p] = "idle"
    /\ Goto(p, "start")
    /\ since' = [since EXCEPT ![p] = Len(trees)]
    /\ after' = [after EXCEPT ![p] = {q \in Procs : pc[q] = "done" /\ result[q].trust = "accepted"}]
    /\ UNCHANGED <<script, snaps, walk, plan, reg, trees, edits>>

\* The process dies; what it has recorded stays.
Kill(p) ==
    /\ pc[p] \notin {"idle", "done"}
    /\ Finish(p, [Running EXCEPT !.status = "killed"])
    /\ UNCHANGED <<script, snaps, walk, plan, reg, trees, edits, since, after>>

\* Somebody edits the directory while a command is at work.
EditTree ==
    /\ edits > 0
    /\ \E p \in Procs : pc[p] \notin {"idle", "done"}
    /\ \E path \in script.editable : \E tree \in Edits(Tree, path, Len(trees)) :
         trees' = Append(trees, tree)
    /\ edits' = edits - 1
    /\ UNCHANGED <<script, pc, snaps, walk, plan, reg, since, after, result>>

Init ==
    /\ script \in Scripts
    /\ pc = [p \in Procs |-> "idle"]
    /\ snaps = [p \in Procs |-> <<>>]
    /\ walk = [p \in Procs |-> NoWalk]
    /\ plan = [p \in Procs |-> {}]
    /\ reg = {}
    /\ trees = <<script.tree>>
    /\ edits = script.edits
    /\ since = [p \in Procs |-> 0]
    /\ after = [p \in Procs |-> {}]
    /\ result = [p \in Procs |-> Running]

Step(p) ==
    \/ Begin(p) \/ Kill(p)
    \/ VerifyAttestation(p) \/ ObservePolicyState(p) \/ VerifySigner(p)
    \/ ResolveSource(p) \/ ListTree(p) \/ VisitFile(p) \/ EndWalk(p)
    \/ ReadPlan(p) \/ ReadDerivedInput(p) \/ ProbeFreshnessRunner(p)
    \/ Attest(p) \/ BuildBundle(p)
    \/ VerifyReleaseIndex(p) \/ ObserveAuthorityState(p) \/ ObserveReleasePolicy(p)
    \/ AuthorizeIndex(p) \/ ScanList(p) \/ ScanFile(p) \/ ScanEnd(p) \/ InspectedArtifacts(p)
    \/ ObserveIndexState(p) \/ SignReleaseIndex(p) \/ Issue(p)

Next == EditTree \/ \E p \in Procs : Step(p)

Spec == Init /\ [][Next]_vars

-----------------------------------------------------------------------------
(* What the documents have to be, said without the order of the checks. *)

SignedBy(envelope, type, key, kind) ==
    /\ key # NoKey
    /\ envelope.type = type /\ envelope.keyid = key /\ envelope.signer = key
    /\ envelope.payload.kind = kind

\* A bundle stands when it is what building from its own parts would make.
BundleStands(b) ==
    /\ {"verification", "key"} \subseteq Members(b)
    /\ LET result_ == Member(b, "verification")
           sbom == IF "sbom" \in Members(b) THEN {Member(b, "sbom")} ELSE {}
       IN  IF "provenance" \in Members(b)
           THEN \E s \in sbom : b \in BuildWithDerivedSPDX(result_, s, Member(b, "provenance"), Signer(b))
           ELSE b \in BuildWithSPDX(result_, sbom, Signer(b))

Path(c) ==
    CASE c.mode \in {"signed", "direct"} -> <<c.authority>>
      [] c.mode = "rotated" -> <<c.root, c.authority>>
      [] c.mode = "chained" -> <<c.root>> \o [i \in DOMAIN c.chain.hops |-> c.chain.hops[i].next]

Hops(c) ==
    CASE c.mode \in {"signed", "direct"} -> <<>>
      [] c.mode = "rotated" -> <<c.transition>>
      [] c.mode = "chained" -> [i \in DOMAIN c.chain.hops |-> c.chain.hops[i].envelope]

\* Each authority named the next, later and later, up to the one that signs.
PathGenuine(c, kind, chainKind) ==
    LET path == Path(c)
        hops == Hops(c)
    IN  /\ c.mode = "chained" => c.chain.kind = chainKind /\ Len(hops) \in 2..MaxHops
        /\ \A i, j \in DOMAIN path : path[i] # NoKey /\ (i # j => path[i] # path[j])
        /\ Last(path) = c.authority
        /\ \A i \in DOMAIN hops : /\ SignedBy(hops[i], kind, path[i], kind)
                                  /\ hops[i].payload.previous = path[i]
                                  /\ hops[i].payload.next = path[i + 1]
                                  /\ hops[i].payload.generation \in 1..GenerationLimit
        /\ \A i, j \in DOMAIN hops : i < j => hops[i].payload.generation < hops[j].payload.generation
        /\ hops # <<>> => /\ c.minimumAuthority >= 1
                          /\ Last(hops).payload.generation >= c.minimumAuthority

KeysInOrder(keys) ==
    /\ Len(keys) \in 1..KeyLimit
    /\ \A i \in DOMAIN keys : keys[i].key # NoKey /\ keys[i].status \in {"trusted", "revoked"}
    /\ \A i, j \in DOMAIN keys : i < j => keys[i].key < keys[j].key

PolicyGenuine(c, kind) ==
    LET policy == c.policy.payload
        listed == {policy.keys[i].key : i \in DOMAIN policy.keys}
    IN  /\ SignedBy(c.policy, kind, c.authority, kind)
        /\ c.minimum >= 1 /\ policy.generation \in c.minimum..GenerationLimit
        /\ KeysInOrder(policy.keys)
        /\ c.authority \notin listed

AttestationPolicyGenuine(c) ==
    /\ PathGenuine(c, "transition", "chain")
    /\ PolicyGenuine(c, "policy")
    /\ \A i \in DOMAIN Path(c) : \A k \in DOMAIN c.policy.payload.keys :
         c.policy.payload.keys[k].key # Path(c)[i]

TrustsSigner(policy, key) ==
    \E i \in DOMAIN policy.keys : policy.keys[i] = [key |-> key, status |-> "trusted"]

ReleaseAuthorityGenuine(c) ==
    /\ c.index.kind = "index" /\ c.index.scope = Release
    /\ c.minimumRelease \in 1..GenerationLimit /\ c.index.generation \in 1..GenerationLimit
    /\ Len(c.index.files) <= FileLimit
    /\ \A i, j \in DOMAIN c.index.files : i < j => c.index.files[i].path < c.index.files[j].path
    /\ \E i \in DOMAIN c.index.files : c.index.files[i].path = SumsPath
    /\ SignedBy(c.envelope, "index", c.signer, "index") /\ c.envelope.payload = c.index
    /\ PathGenuine(c, "release-transition", "release-chain")
    /\ \A i \in DOMAIN Hops(c) : Hops(c)[i].payload.scope = Release
    /\ c.mode = "chained" => c.chain.scope = Release

ReleasePolicyGenuine(c) ==
    ReleaseAuthorityGenuine(c) /\ PolicyGenuine(c, "release-policy") /\ c.policy.payload.scope = Release

Genuine(c) ==
    CASE c.op = "verify-attestation" ->
           /\ c.pin \subseteq {c.bundle}
           /\ BundleStands(c.bundle)
           /\ CASE c.mode = "none" -> FALSE
                [] c.mode = "key" -> c.authority = Signer(c.bundle)
                [] c.mode = "policy-v1" -> /\ c.policyPin = {c.policy}
                                           /\ c.policy.kind = "policy-v1"
                                           /\ KeysInOrder(c.policy.keys)
                                           /\ TrustsSigner(c.policy, Signer(c.bundle))
                [] OTHER -> /\ AttestationPolicyGenuine(c)
                            /\ TrustsSigner(c.policy.payload, Signer(c.bundle))
      [] c.op = "verify-release-index" ->
           /\ c.pin \subseteq {c.index}
           /\ ReleasePolicyGenuine(c)
           /\ TrustsSigner(c.policy.payload, c.signer)
           /\ c.index.generation >= c.minimumRelease

StateReasons == {"unavailable", "rollback-rejected", "equivocation-rejected",
                 "authority-equivocation-rejected", "policy-equivocation-rejected"}

\* What a caller given the document, its signer and its own generation as the
\* floor would say of it.
VerifierAccepts(c, made) ==
    CASE c.op = "attest" -> Verify(made)
      [] c.op = "sign-release-index" -> AuthenticateSignedIndex(made.payload, made, c.key, c.generation)
      [] c.op = "issue" ->
           CASE c.what = "policy" -> ParseSignedOfflineTrustPolicy(made, c.key) = "ok"
             [] c.what = "transition" ->
                  VerifyOfflineTrustPolicyAuthorityTransition(made, c.key, c.next, c.generation)
             [] c.what = "chain" ->
                  VerifyOfflineTrustPolicyAuthorityTransitionChain(made, c.key, Last(c.hops).next, LastHop(made))
             [] c.what = "release-policy" -> VerifyPolicy(made, c.key, c.payload.generation)
             [] c.what = "release-transition" -> VerifyAuthorityTransition(made, c.key, c.next, c.generation)
             [] c.what = "release-chain" ->
                  VerifyAuthorityTransitionChain(made, c.key, Last(c.hops).next, LastHop(made))

-----------------------------------------------------------------------------
(* Properties. *)

\* A verifying command accepts exactly the documents that are genuine, whatever
\* order it checks them in (the durable state and the artifacts may still say
\* no), and whatever an issuing command writes its verifier accepts.
AcceptedIsJustified ==
    \A p \in Procs :
      LET c == Command(p) IN
      pc[p] = "done" /\ result[p].status # "killed" =>
        /\ c.op \in {"verify-attestation", "verify-release-index"} =>
             /\ result[p].trust = "accepted" => Genuine(c)
             /\ Genuine(c) => \/ result[p].trust = "accepted"
                              \/ result[p].reason \in StateReasons \cup {"artifacts"}
        /\ \A made \in result[p].made : VerifierAccepts(c, made)

\* The generations an observation is about, with what they are generations of.
Generations(o) ==
    CASE o.store = "rotation" ->
           {[of |-> "authority", at |-> o.value.transitionGeneration,
             is |-> <<o.value.transitionDigest, o.value.terminal>>],
            [of |-> "policy", at |-> o.value.policyGeneration, is |-> <<o.value.policyDigest>>]}
      [] o.store = "chain" ->
           {[of |-> "authority", at |-> o.value.chainGeneration,
             is |-> <<o.value.chainDigest, o.value.terminal>>],
            [of |-> "policy", at |-> o.value.policyGeneration, is |-> <<o.value.policyDigest>>]}
      [] OTHER -> {[of |-> "value", at |-> o.value.generation, is |-> <<o.value.digest>>]}

Observations(c) ==
    IF c.op = "verify-attestation" THEN {attestationObservation(c)}
    ELSE {releasePolicyObservation(c), releaseIndexObservation(c)}
         \cup (IF c.mode = "direct" THEN {} ELSE {releaseAuthorityObservation(c)})

AcceptedWithState(p) ==
    /\ Command(p).op \in {"verify-attestation", "verify-release-index"}
    /\ Command(p).persist
    /\ result[p].trust = "accepted"

\* Two commands that accepted under the durable state never accepted different
\* documents of one generation, and a command that started after another had
\* accepted never accepted an older one, whoever was killed in between and
\* whatever stores could not be used.
AcceptedInOrder ==
    \A p, q \in Procs :
      AcceptedWithState(p) /\ AcceptedWithState(q) =>
        \A a \in Observations(Command(p)), b \in Observations(Command(q)) :
          a.store = b.store /\ a.key = b.key =>
            \A x \in Generations(a), y \in Generations(b) :
              x.of = y.of => /\ x.at = y.at => x.is = y.is
                             /\ p \in after[q] => y.at >= x.at

ArtifactsExisted(p, files) ==
    \E i \in since[p]..Len(trees) : ArtifactsOf(trees[i]) = files

\* Nothing is recorded that has not been earned: a policy or an authority only
\* from genuine documents that came with a bundle or an index that stands, and
\* an index only when it was also authorised and its artifacts were all there
\* at one moment of the command.
RecordedIsEarned ==
    \A r \in reg : \E p \in Procs :
      LET c == Command(p) IN
      /\ pc[p] # "idle"
      /\ c.op \in {"verify-attestation", "verify-release-index"}
      /\ r \in Observations(c)
      /\ CASE r.store \in {"trust", "rotation", "chain"} ->
                BundleStands(c.bundle) /\ AttestationPolicyGenuine(c)
           [] r.store \in {"release-authority", "release-chain"} -> ReleaseAuthorityGenuine(c)
           [] r.store = "release-policy" -> ReleasePolicyGenuine(c)
           [] r.store = "release-index" -> Genuine(c) /\ ArtifactsExisted(p, c.index.files)

\* The files are those of moment i, and each directory had exactly these
\* names then or later, before the answer.
SourceWasThere(entries, i, until) ==
    /\ \A k \in DOMAIN entries :
         LET path == entries[k].path
         IN  trees[i][path].kind # "absent" /\ entries[k] = EntryOf(trees[i], path)
    /\ \A directory \in Directories : \E j \in i..until :
         NamesIn(entries, directory) = InDirectory(trees[j], directory)

\* Every answer about a directory (current, stale, fresh, the artifacts are
\* those of the index, this SBOM or index is what is there) is about what was
\* there while the command ran.  All the files of the answer were there
\* together, with these contents, at one moment, although no step of the walk
\* sees two of them at once; a plan read on the way was that moment's manifest,
\* and "current" and "fresh" say the signed claims were true of it.  That there
\* was nothing else is known of each directory by itself, at that moment or
\* later, for each is listed when the walk comes to it; the artifacts are one
\* directory, listed before and after, and were exactly those.
ObservedTreeExisted ==
    \A p \in Procs : \A about \in result[p].about :
      \E i \in since[p]..result[p].until :
        /\ IF Command(p).op \in {"verify-release-index", "sign-release-index"}
           THEN about.tree = ArtifactsOf(trees[i])
           ELSE SourceWasThere(about.tree, i, result[p].until)
        /\ about.manifest \subseteq {contentOf(trees[i][ManifestPath])}
        /\ result[p].evaluation = "current" =>
             /\ Claims(p).source.tree = about.tree
             /\ Claims(p).plan = PlanOf(contentOf(trees[i][ManifestPath]), about)
        /\ result[p].evaluation = "fresh" =>
             DerivedClaims(p).provenance = Derivation([tree |-> about.tree]).provenance
=============================================================================
