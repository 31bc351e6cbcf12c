----------------------- MODULE OfflineCommands_proofs -----------------------
(***************************************************************************)
(* What the commands on signed documents promise, for every set of         *)
(* scripts, paths and limits the assumptions of OfflineCommands allow.     *)
(*                                                                         *)
(* AcceptanceInOrder    accepted documents never fork and never go back    *)
(* AcceptanceIsJustified  exactly genuine documents are accepted, and what *)
(*                      is issued is accepted by its verifier              *)
(* RecordingIsEarned    the stores hold only what was verified first       *)
(* ObservationExisted   an answer about a directory was true of it at one  *)
(*                      moment of the command                              *)
(*                                                                         *)
(* Inv ties what a command has checked to the step it is at and to what    *)
(* the stores hold.  TreeInv adds what a scan of artifacts has seen,       *)
(* AboutInv what the walks of a source tree have.                          *)
(***************************************************************************)
EXTENDS OfflineCommands, FiniteSetTheorems, SequenceTheorems, WellFoundedInduction, TLAPS

-----------------------------------------------------------------------------
(* The order of observations. *)

Stores == {"trust", "rotation", "chain", "release-authority", "release-chain",
           "release-policy", "release-index"}

\* The generations of an observation are numbers.
Numbered(o) == o.store \in Stores /\ \A x \in Generations(o) : x.at \in Nat

Same(a, b) == a.store = b.store /\ a.key = b.key

\* b is as new as a in every respect, and of one generation only with it.
Ext(a, b) ==
    \A x \in Generations(a), y \in Generations(b) :
        x.of = y.of => x.at <= y.at /\ (x.at = y.at => x.is = y.is)

-----------------------------------------------------------------------------
(* What a command has checked when it gets to a step.  s and r stand for   *)
(* its step and its outcome.                                               *)

SignedModes == {"signed", "rotated", "chained"}
AtArtifacts == {"scan", "scanning", "names", "index-state"}
PastPolicy == {"authorize"} \cup AtArtifacts
PastAuthority == {"policy-state"} \cup PastPolicy
Comparing == {"resolve", "list", "walk", "plan", "lock", "package", "runner", "build"}

SignerTrusted(c) == VerifySignedOfflineTrustPolicySigner(c.policy.payload, Signer(c.bundle)) = "trusted"

BundleOK(c) == CheckExpectedBundleDigest(c.bundle, c.pin) /\ Verify(c.bundle)

IndexOK(c) ==
    /\ \A x \in c.pin : CheckExpectedIndexDigest(c.index, x)
    /\ ParseIndex(c.index)
    /\ AuthenticateSignedIndex(c.index, c.envelope, c.signer, c.minimumRelease)
    /\ releaseRotation(c)

PolicyOK(c) == VerifyPolicy(c.policy, c.authority, c.minimum)

\* Every check of documents that the command makes.
DocumentsOK(c) ==
    IF c.op = "verify-attestation"
    THEN BundleOK(c) /\ (TrustOf(c) = "trusted" \/ (TrustOf(c) = "ok" /\ SignerTrusted(c)))
    ELSE IndexOK(c) /\ PolicyOK(c) /\ Authorized(c)

Reviewed(c, s) ==
    /\ (c.op = "verify-attestation" /\ s \in {"policy-state", "signer"}) =>
           BundleOK(c) /\ TrustOf(c) = "ok"
    /\ c.op = "verify-release-index" =>
           /\ s \in {"authority-state"} \cup PastAuthority => IndexOK(c)
           /\ s \in PastAuthority => PolicyOK(c)
           /\ s \in AtArtifacts => Authorized(c)

RightStep(c, s) ==
    /\ s \in {"authority-state", "authorize", "index-state"} => c.op = "verify-release-index"
    /\ s \in {"scan", "scanning", "names"} => c.op \in {"verify-release-index", "sign-release-index"}
    /\ s \in Comparing => c.op \in {"verify-attestation", "attest"}
    /\ s = "build" => c.op = "attest"
    /\ s \in {"plan", "runner"} => c.op = "verify-attestation"
    /\ s \in {"authority-state", "index-state"} => c.persist
    /\ s = "authority-state" => c.mode # "direct"
    /\ s = "policy-state" => c.persist /\ c.op \in Verifying

Outcome(c, s, r) ==
    /\ r.trust = "accepted" =>
           c.op \in Verifying /\ s \in Comparing \cup {"done"} /\ DocumentsOK(c)
    /\ (s \in Comparing /\ c.op = "verify-attestation") => r.trust = "accepted"
    /\ (s = "done" /\ r.status # "killed" /\ c.op \in Verifying /\ r.trust # "accepted") =>
           r.reason \in StateReasons \cup {"artifacts"} \/ ~DocumentsOK(c)

Local(c, s, r) == Reviewed(c, s) /\ RightStep(c, s) /\ Outcome(c, s, r)

\* The observations the command has had accepted.
SeenAt(c, s, trust) ==
    IF c.op \notin Verifying \/ ~c.persist THEN {}
    ELSE IF trust = "accepted" THEN Observations(c)
    ELSE IF c.op = "verify-attestation" THEN IF s = "signer" THEN Observations(c) ELSE {}
    ELSE {o \in Observations(c) :
             \/ s \in PastAuthority /\ c.mode # "direct" /\ o = releaseAuthorityObservation(c)
             \/ s \in PastPolicy /\ o = releasePolicyObservation(c)}

Seen(p) == SeenAt(Command(p), pc[p], result[p].trust)

-----------------------------------------------------------------------------
(* The stores. *)

\* The command had checked what is in the record when it observed it.
Earns(c, r) ==
    /\ c.op \in Verifying /\ c.persist
    /\ r \in Observations(c)
    /\ c.op = "verify-attestation" => BundleOK(c) /\ TrustOf(c) = "ok"
    /\ c.op = "verify-release-index" =>
           /\ IndexOK(c)
           /\ r.store \in {"release-policy", "release-index"} => PolicyOK(c)
           /\ r.store = "release-index" => Authorized(c)

Earned == \A r \in reg : \E p \in Procs : pc[p] # "idle" /\ Earns(Command(p), r)

OneRecord == \A r, s \in reg : Same(r, s) => r = s

\* What was accepted is covered by the record of its store.
Covered == \A p \in Procs : \A a \in Seen(p) : \E r \in reg : Same(a, r) /\ Ext(a, r)

Chained == \A p, q \in Procs : \A a \in Seen(p), b \in Seen(q) : Same(a, b) => Ext(a, b) \/ Ext(b, a)

InOrder ==
    \A q \in Procs : \A p \in after[q] :
        /\ p \in Procs /\ pc[p] = "done"
        /\ \A a \in Seen(p), b \in Seen(q) : Same(a, b) => Ext(a, b)

Fields == {"status", "trust", "reason", "evaluation", "made", "about", "until"}

Types ==
    /\ script \in Scripts
    /\ DOMAIN pc = Procs /\ DOMAIN result = Procs /\ DOMAIN after = Procs
    /\ \A p \in Procs : DOMAIN result[p] = Fields

Inv ==
    /\ Types
    /\ \A p \in Procs : Local(Command(p), pc[p], result[p])
    /\ Earned /\ OneRecord /\ Covered /\ Chained /\ InOrder

LEMMA ExtReflexive ==
    ASSUME NEW o, Numbered(o)
    PROVE  Ext(o, o)
<1>1. ASSUME NEW x \in Generations(o), NEW y \in Generations(o), x.of = y.of
      PROVE  x = y
  <2>1. CASE o.store = "rotation"
    BY <1>1, <2>1 DEF Generations
  <2>2. CASE o.store = "chain"
    BY <1>1, <2>2 DEF Generations
  <2>3. CASE o.store \notin {"rotation", "chain"}
    BY <1>1, <2>3 DEF Generations
  <2> QED  BY <2>1, <2>2, <2>3
<1> QED  BY <1>1 DEF Ext, Numbered

\* Observations of one store have generations of the same things.
LEMMA SameKinds ==
    ASSUME NEW a, NEW b, a.store = b.store, NEW x \in Generations(a)
    PROVE  \E y \in Generations(b) : y.of = x.of
<1>1. CASE a.store = "rotation"
  <2> DEFINE authority == [of |-> "authority", at |-> b.value.transitionGeneration,
                           is |-> <<b.value.transitionDigest, b.value.terminal>>]
             policy == [of |-> "policy", at |-> b.value.policyGeneration, is |-> <<b.value.policyDigest>>]
  <2>1. authority \in Generations(b) /\ policy \in Generations(b)
    BY <1>1 DEF Generations
  <2>2. x.of \in {"authority", "policy"} /\ authority.of = "authority" /\ policy.of = "policy"
    BY <1>1 DEF Generations
  <2> QED  BY <2>1, <2>2
<1>2. CASE a.store = "chain"
  <2> DEFINE authority == [of |-> "authority", at |-> b.value.chainGeneration,
                           is |-> <<b.value.chainDigest, b.value.terminal>>]
             policy == [of |-> "policy", at |-> b.value.policyGeneration, is |-> <<b.value.policyDigest>>]
  <2>1. authority \in Generations(b) /\ policy \in Generations(b)
    BY <1>2 DEF Generations
  <2>2. x.of \in {"authority", "policy"} /\ authority.of = "authority" /\ policy.of = "policy"
    BY <1>2 DEF Generations
  <2> QED  BY <2>1, <2>2
<1>3. CASE a.store \notin {"rotation", "chain"}
  <2> DEFINE value == [of |-> "value", at |-> b.value.generation, is |-> <<b.value.digest>>]
  <2>1. value \in Generations(b) /\ value.of = "value" /\ x.of = "value"
    BY <1>3 DEF Generations
  <2> QED  BY <2>1
<1> QED  BY <1>1, <1>2, <1>3

LEMMA ExtTransitive ==
    ASSUME NEW a, NEW b, NEW c, Numbered(a), Numbered(b), Numbered(c),
           a.store = b.store, Ext(a, b), Ext(b, c)
    PROVE  Ext(a, c)
<1> SUFFICES ASSUME NEW x \in Generations(a), NEW z \in Generations(c), x.of = z.of
             PROVE  x.at <= z.at /\ (x.at = z.at => x.is = z.is)
  BY DEF Ext
<1>1. PICK y \in Generations(b) : y.of = x.of
  BY SameKinds
<1>2. x.at <= y.at /\ (x.at = y.at => x.is = y.is)
  BY <1>1 DEF Ext
<1>3. y.at <= z.at /\ (y.at = z.at => y.is = z.is)
  BY <1>1 DEF Ext
<1>4. x.at \in Nat /\ y.at \in Nat /\ z.at \in Nat
  BY DEF Numbered
<1> QED  BY <1>2, <1>3, <1>4

\* What the comparison lets pass is as new as the record, and only what is
\* the record's own generation matches it.
LEMMA ClassifySound ==
    ASSUME NEW a, NEW b, Numbered(a), Numbered(b), a.store = b.store
    PROVE  /\ Classify(a.store, a.value, b.value) \in {"advance", "matched"} => Ext(a, b)
           /\ Classify(a.store, a.value, b.value) = "matched" => Ext(b, a)
           /\ Classify(a.store, a.value, b.value) \notin {"initialized", "advanced"}
<1>1. CASE a.store = "rotation"
  <2>1. /\ a.value.transitionGeneration \in Nat /\ a.value.policyGeneration \in Nat
        /\ b.value.transitionGeneration \in Nat /\ b.value.policyGeneration \in Nat
    BY <1>1 DEF Numbered, Generations
  <2>2. Classify(a.store, a.value, b.value) = ClassifyRotation(a.value, b.value)
    BY <1>1 DEF Classify
  <2>3. ClassifyRotation(a.value, b.value) \in {"advance", "matched"} =>
           /\ a.value.transitionGeneration <= b.value.transitionGeneration
           /\ a.value.policyGeneration <= b.value.policyGeneration
           /\ a.value.transitionGeneration = b.value.transitionGeneration =>
                a.value.transitionDigest = b.value.transitionDigest /\ a.value.terminal = b.value.terminal
           /\ a.value.policyGeneration = b.value.policyGeneration =>
                a.value.policyDigest = b.value.policyDigest
    BY <2>1 DEF ClassifyRotation
  <2>4. ClassifyRotation(a.value, b.value) = "matched" =>
           /\ a.value.transitionGeneration = b.value.transitionGeneration
           /\ a.value.policyGeneration = b.value.policyGeneration
    BY <2>1 DEF ClassifyRotation
  <2>5. ClassifyRotation(a.value, b.value) \notin {"initialized", "advanced"}
    BY DEF ClassifyRotation
  <2> QED  BY <1>1, <2>1, <2>2, <2>3, <2>4, <2>5 DEF Ext, Generations
<1>2. CASE a.store = "chain"
  <2>1. /\ a.value.chainGeneration \in Nat /\ a.value.policyGeneration \in Nat
        /\ b.value.chainGeneration \in Nat /\ b.value.policyGeneration \in Nat
    BY <1>2 DEF Numbered, Generations
  <2>2. Classify(a.store, a.value, b.value) = ClassifyChain(a.value, b.value)
    BY <1>2 DEF Classify
  <2>3. ClassifyChain(a.value, b.value) \in {"advance", "matched"} =>
           /\ a.value.chainGeneration <= b.value.chainGeneration
           /\ a.value.policyGeneration <= b.value.policyGeneration
           /\ a.value.chainGeneration = b.value.chainGeneration =>
                a.value.chainDigest = b.value.chainDigest /\ a.value.terminal = b.value.terminal
           /\ a.value.policyGeneration = b.value.policyGeneration =>
                a.value.policyDigest = b.value.policyDigest
    BY <2>1 DEF ClassifyChain
  <2>4. ClassifyChain(a.value, b.value) = "matched" =>
           /\ a.value.chainGeneration = b.value.chainGeneration
           /\ a.value.policyGeneration = b.value.policyGeneration
    BY <2>1 DEF ClassifyChain
  <2>5. ClassifyChain(a.value, b.value) \notin {"initialized", "advanced"}
    BY DEF ClassifyChain
  <2> QED  BY <1>2, <2>1, <2>2, <2>3, <2>4, <2>5 DEF Ext, Generations
<1>3. CASE a.store \notin {"rotation", "chain"}
  <2>1. a.value.generation \in Nat /\ b.value.generation \in Nat
    BY <1>3 DEF Numbered, Generations
  <2>2. Classify(a.store, a.value, b.value) =
          IF b.value.generation < a.value.generation THEN "rollback-rejected"
          ELSE IF b.value.generation = a.value.generation
          THEN IF b.value.digest # a.value.digest THEN "equivocation-rejected" ELSE "matched"
          ELSE "advance"
    BY <1>3, <2>1 DEF Classify, ClassifyTrust, ClassifyRelease
  <2>3. Classify(a.store, a.value, b.value) \in {"advance", "matched"} =>
          /\ a.value.generation <= b.value.generation
          /\ a.value.generation = b.value.generation => a.value.digest = b.value.digest
    BY <2>1, <2>2
  <2>4. Classify(a.store, a.value, b.value) = "matched" => a.value.generation = b.value.generation
    BY <2>1, <2>2
  <2>5. Classify(a.store, a.value, b.value) \notin {"initialized", "advanced"}
    BY <2>2
  <2> QED  BY <1>3, <2>1, <2>3, <2>4, <2>5 DEF Ext, Generations
<1> QED  BY <1>1, <1>2, <1>3

\* One observation keeps one record of each store and key and only replaces a
\* record by a newer one; if it is accepted, it is covered from then on.
LEMMA ObserveFacts ==
    ASSUME NEW o, NEW evaluation, Observe(o, evaluation), OneRecord, Numbered(o),
           \A r \in reg : Numbered(r)
    PROVE  /\ OneRecord'
           /\ \A r \in reg' : r \in reg \/ r = o
           /\ \A r \in reg : \E s \in reg' : Same(r, s) /\ Ext(r, s)
           /\ acceptedStateEvaluation(evaluation) =>
                /\ \E s \in reg' : Same(o, s) /\ Ext(o, s)
                /\ \A r \in reg : Same(r, o) => Ext(r, o)
<1> DEFINE moved == (reg \ Recorded(o)) \cup {o}
           truth == Evaluation(o)
<1>1. \/ reg' = reg
      \/ reg' = moved /\ truth \in {"initialized", "advanced"}
  BY DEF Observe
<1>2. acceptedStateEvaluation(evaluation) =>
        /\ evaluation = truth
        /\ truth \in {"initialized", "advanced"} => reg' = moved
        /\ truth \notin {"initialized", "advanced"} => reg' = reg /\ truth = "matched"
  BY DEF Observe, acceptedStateEvaluation, AcceptedEvaluations
<1>3. ASSUME NEW r \in reg, Same(r, o)
      PROVE  /\ truth = "matched" => Ext(r, o) /\ Ext(o, r)
             /\ truth \in {"initialized", "advanced"} => Ext(r, o)
  <2>1. r \in Recorded(o) /\ \A s \in Recorded(o) : s = r
    BY <1>3 DEF Recorded, OneRecord, Same
  <2>2. (CHOOSE s \in Recorded(o) : TRUE) = r
    BY <2>1
  <2>3. truth = LET answer == Classify(o.store, r.value, o.value)
                IN  IF answer = "advance" THEN "advanced" ELSE answer
    BY <2>1, <2>2 DEF Evaluation
  <2>4. r.store = o.store /\ Numbered(r)
    BY <1>3 DEF Same
  <2> HIDE DEF truth
  <2> DEFINE answer == Classify(r.store, r.value, o.value)
  <2>5. /\ answer \in {"advance", "matched"} => Ext(r, o)
        /\ answer = "matched" => Ext(o, r)
        /\ answer \notin {"initialized", "advanced"}
    BY <2>4, ClassifySound
  <2>6. truth = IF answer = "advance" THEN "advanced" ELSE answer
    BY <2>3, <2>4
  <2> HIDE DEF answer
  <2> QED  BY <2>5, <2>6
<1>4. truth = "matched" => \E r \in reg : Same(r, o)
  <2>1. Recorded(o) = {} => truth = "initialized"
    BY DEF Evaluation
  <2> HIDE DEF truth
  <2> QED  BY <2>1 DEF Recorded, Same
<1> HIDE DEF truth
<1>5. OneRecord'
  <2>1. CASE reg' = reg
    BY <2>1 DEF OneRecord
  <2>2. CASE reg' = moved
    BY <2>2 DEF OneRecord, Recorded, Same
  <2> QED  BY <1>1, <2>1, <2>2
<1>6. \A r \in reg' : r \in reg \/ r = o
  BY <1>1
<1>7. ASSUME NEW r \in reg
      PROVE  \E s \in reg' : Same(r, s) /\ Ext(r, s)
  <2>1. CASE reg' = reg
    BY <2>1, ExtReflexive DEF Same
  <2>2. CASE reg' = moved /\ truth \in {"initialized", "advanced"} /\ Same(r, o)
    BY <2>2, <1>3
  <2>3. CASE reg' = moved /\ ~Same(r, o)
    <3>1. r \in reg'
      BY <2>3 DEF Recorded, Same
    <3> QED  BY <3>1, ExtReflexive DEF Same
  <2> QED  BY <1>1, <2>1, <2>2, <2>3
<1>8. ASSUME acceptedStateEvaluation(evaluation)
      PROVE  /\ \E s \in reg' : Same(o, s) /\ Ext(o, s)
             /\ \A r \in reg : Same(r, o) => Ext(r, o)
  <2>1. truth \in {"initialized", "advanced", "matched"}
    BY <1>8, <1>2
  <2>2. CASE truth = "matched"
    BY <1>8, <2>2, <1>2, <1>3, <1>4 DEF Same
  <2>3. CASE truth \in {"initialized", "advanced"}
    BY <1>8, <2>3, <1>2, <1>3, ExtReflexive DEF Same
  <2> QED  BY <2>1, <2>2, <2>3
<1> QED  BY <1>5, <1>6, <1>7, <1>8

LEMMA GenerationsAreNumbers ==
    ASSUME NEW g, validGeneration(g)
    PROVE  g \in Nat /\ g >= 1
BY DocumentBounds DEF validGeneration

\* The last hop of a chain that was verified has a generation.
LEMMA LastHopIsNumber ==
    ASSUME NEW chain, IsList(chain.hops), NEW root, NEW terminal, NEW minimum,
           \/ VerifyOfflineTrustPolicyAuthorityTransitionChain(chain, root, terminal, minimum)
           \/ VerifyAuthorityTransitionChain(chain, root, terminal, minimum)
    PROVE  LastHop(chain) \in Nat
<1> DEFINE n == Len(chain.hops)
<1>1. n >= 2 /\ n \in Nat
  BY DocumentBounds DEF VerifyOfflineTrustPolicyAuthorityTransitionChain, VerifyAuthorityTransitionChain,
     validateOfflineTrustPolicyAuthorityTransitionChain, validateAuthorityTransitionChainShape, MinHops, IsList
<1>2. n \in DOMAIN chain.hops
  BY <1>1 DEF IsList
<1>3. validGeneration(chain.hops[n].envelope.payload.generation)
  <2>1. \E a, b : \/ VerifyOfflineTrustPolicyAuthorityTransition(chain.hops[n].envelope, a, b, 1)
                  \/ VerifyAuthorityTransition(chain.hops[n].envelope, a, b, 1)
    BY <1>2 DEF VerifyOfflineTrustPolicyAuthorityTransitionChain, VerifyAuthorityTransitionChain
  <2> QED
    BY <2>1 DEF VerifyOfflineTrustPolicyAuthorityTransition, VerifyAuthorityTransition,
       ParseOfflineTrustPolicyAuthorityTransitionPayload, validateOfflineTrustPolicyAuthorityTransition,
       ParseAuthorityTransitionPayload, validateAuthorityTransition
<1> QED  BY <1>3, GenerationsAreNumbers DEF LastHop, HopGeneration

LEMMA SignedPolicyNumber ==
    ASSUME NEW c, ParseSignedOfflineTrustPolicy(c.policy, c.authority) = "ok"
    PROVE  c.policy.payload.generation \in Nat
BY GenerationsAreNumbers DEF ParseSignedOfflineTrustPolicy, parseOfflineTrustPolicyV2

LEMMA AttestationNumbered ==
    ASSUME NEW c, c.mode \in SignedModes, TrustOf(c) = "ok",
           c.mode = "chained" => (c.chain.kind = "chain" => IsList(c.chain.hops))
    PROVE  Numbered(attestationObservation(c))
<1>1. CASE c.mode = "signed"
  <2>1. signedPolicy(c) = "ok"
    BY <1>1 DEF TrustOf
  <2>2. ParseSignedOfflineTrustPolicy(c.policy, c.authority) = "ok"
    BY <2>1 DEF signedPolicy
  <2> QED  BY <1>1, <2>2, SignedPolicyNumber
           DEF attestationObservation, trustObservation, Numbered, Generations, Stores
<1>2. CASE c.mode = "rotated"
  <2>1. verifyWithRotatedSignedOfflineTrustPolicy(c) = "ok"
    BY <1>2 DEF TrustOf
  <2>2. ParseSignedOfflineTrustPolicy(c.policy, c.authority) = "ok"
    BY <2>1 DEF verifyWithRotatedSignedOfflineTrustPolicy
  <2>3. VerifyOfflineTrustPolicyAuthorityTransition(c.transition, c.root, c.authority, c.minimumAuthority)
    BY <2>1 DEF verifyWithRotatedSignedOfflineTrustPolicy
  <2>4. c.transition.payload.generation \in Nat
    BY <2>3, GenerationsAreNumbers
       DEF VerifyOfflineTrustPolicyAuthorityTransition, ParseOfflineTrustPolicyAuthorityTransitionPayload,
           validateOfflineTrustPolicyAuthorityTransition
  <2> QED  BY <1>2, <2>2, <2>4, SignedPolicyNumber
           DEF attestationObservation, rotationObservation, Numbered, Generations, Stores
<1>3. CASE c.mode = "chained"
  <2>1. verifyWithChainedSignedOfflineTrustPolicy(c) = "ok"
    BY <1>3 DEF TrustOf
  <2>2. ParseSignedOfflineTrustPolicy(c.policy, c.authority) = "ok"
    BY <2>1 DEF verifyWithChainedSignedOfflineTrustPolicy
  <2>3. VerifyOfflineTrustPolicyAuthorityTransitionChain(c.chain, c.root, c.authority, c.minimumAuthority)
    BY <2>1 DEF verifyWithChainedSignedOfflineTrustPolicy
  <2>4. c.chain.kind = "chain"
    BY <2>3 DEF VerifyOfflineTrustPolicyAuthorityTransitionChain
  <2>5. LastHop(c.chain) \in Nat
    BY <1>3, <2>3, <2>4, LastHopIsNumber
  <2> QED  BY <1>3, <2>2, <2>5, SignedPolicyNumber
           DEF attestationObservation, chainObservation, Numbered, Generations, Stores
<1> QED  BY <1>1, <1>2, <1>3 DEF SignedModes

LEMMA ReleaseNumbered ==
    ASSUME NEW c, c.mode \in {"direct", "rotated", "chained"}, IndexOK(c),
           c.mode = "chained" => (c.chain.kind = "release-chain" => IsList(c.chain.hops))
    PROVE  /\ Numbered(releaseIndexObservation(c))
           /\ c.mode # "direct" => Numbered(releaseAuthorityObservation(c))
           /\ PolicyOK(c) => Numbered(releasePolicyObservation(c))
<1>1. c.index.generation \in Nat
  BY GenerationsAreNumbers DEF IndexOK, ParseIndex, validateIndex
<1>2. PolicyOK(c) => c.policy.payload.generation \in Nat
  BY GenerationsAreNumbers DEF PolicyOK, VerifyPolicy, ParsePolicyPayload, validatePolicy
<1>3. CASE c.mode = "direct"
  BY <1>1, <1>2, <1>3 DEF releaseIndexObservation, releasePolicyObservation, Numbered, Generations, Stores
<1>4. CASE c.mode = "rotated"
  <2>1. VerifyAuthorityTransition(c.transition, c.root, c.authority, c.minimumAuthority)
    BY <1>4 DEF IndexOK, releaseRotation
  <2>2. c.transition.payload.generation \in Nat
    BY <2>1, GenerationsAreNumbers
       DEF VerifyAuthorityTransition, ParseAuthorityTransitionPayload, validateAuthorityTransition
  <2> QED  BY <1>1, <1>2, <1>4, <2>2 DEF releaseIndexObservation, releasePolicyObservation,
              releaseAuthorityObservation, Numbered, Generations, Stores
<1>5. CASE c.mode = "chained"
  <2>1. VerifyAuthorityTransitionChain(c.chain, c.root, c.authority, c.minimumAuthority)
    BY <1>5 DEF IndexOK, releaseRotation
  <2>2. c.chain.kind = "release-chain"
    BY <2>1 DEF VerifyAuthorityTransitionChain
  <2>3. LastHop(c.chain) \in Nat
    BY <1>5, <2>1, <2>2, LastHopIsNumber
  <2> QED  BY <1>1, <1>2, <1>5, <2>3 DEF releaseIndexObservation, releasePolicyObservation,
              releaseAuthorityObservation, Numbered, Generations, Stores
<1> QED  BY <1>3, <1>4, <1>5

\* Whatever a command has earned has numbers for generations.
LEMMA EarnedNumbered ==
    ASSUME NEW s \in Scripts, NEW i \in DOMAIN s.commands, NEW r, Earns(s.commands[i], r)
    PROVE  Numbered(r)
<1> DEFINE c == s.commands[i]
<1>1. /\ c.op \in Verifying /\ c.persist /\ r \in Observations(c)
      /\ c.op = "verify-attestation" => TrustOf(c) = "ok"
      /\ c.op = "verify-release-index" =>
           IndexOK(c) /\ (r.store \in {"release-policy", "release-index"} => PolicyOK(c))
  BY DEF Earns
<1>2. /\ c.op = "verify-attestation" => c.mode \in SignedModes
      /\ c.op = "verify-release-index" => c.mode \in {"direct", "rotated", "chained"}
      /\ c.chain.kind \in {"chain", "release-chain"} => IsList(c.chain.hops)
  BY <1>1, ScriptsAssumption DEF SignedModes, Decoded
<1> HIDE DEF c
<1>3. CASE c.op = "verify-attestation"
  BY <1>1, <1>2, <1>3, AttestationNumbered DEF Observations
<1>4. CASE c.op = "verify-release-index"
  <2>1. /\ releaseIndexObservation(c).store = "release-index"
        /\ releasePolicyObservation(c).store = "release-policy"
    BY DEF releaseIndexObservation, releasePolicyObservation
  <2>2. r \in {releasePolicyObservation(c), releaseIndexObservation(c)}
             \cup (IF c.mode = "direct" THEN {} ELSE {releaseAuthorityObservation(c)})
    BY <1>1, <1>4 DEF Observations
  <2> QED  BY <1>1, <1>2, <1>4, <2>1, <2>2, ReleaseNumbered
<1> QED  BY <1>1, <1>3, <1>4 DEF Verifying

\* p goes to step s with outcome r.
Later(p, s, r) ==
    /\ pc' = [pc EXCEPT ![p] = s]
    /\ result' = [result EXCEPT ![p] = r] \/ (result' = result /\ r = result[p])
    /\ DOMAIN r = Fields

LEMMA FinishFacts ==
    ASSUME NEW p, NEW o, DOMAIN o = Fields, Finish(p, o)
    PROVE  \E r : /\ Later(p, "done", r)
                  /\ r.trust = o.trust /\ r.status = o.status /\ r.reason = o.reason /\ r.made = o.made
<1> DEFINE r == [o EXCEPT !.until = Len(trees)]
<1>1. /\ DOMAIN r = Fields /\ r.trust = o.trust /\ r.status = o.status /\ r.reason = o.reason
      /\ r.made = o.made
  BY DEF Fields
<1>2. Later(p, "done", r)
  BY <1>1 DEF Finish, Later
<1> HIDE DEF r
<1> QED  BY <1>1, <1>2

LEMMA GotoFacts ==
    ASSUME Types, NEW p \in Procs, NEW s, Goto(p, s)
    PROVE  Later(p, s, result[p])
BY DEF Goto, Later, Types

LEMMA FailFacts ==
    ASSUME Types, NEW p \in Procs, NEW reason, Fail(p, reason)
    PROVE  \E r : /\ Later(p, "done", r)
                  /\ r.trust = result[p].trust /\ r.status = "error" /\ r.reason = reason
                  /\ r.made = result[p].made
<1> DEFINE o == [result[p] EXCEPT !.status = "error", !.reason = reason]
<1>1. /\ DOMAIN o = Fields /\ o.trust = result[p].trust /\ o.status = "error" /\ o.reason = reason
      /\ o.made = result[p].made
  BY DEF Types, Fields
<1>2. Finish(p, o)
  BY DEF Fail
<1> HIDE DEF o
<1> QED  BY <1>1, <1>2, FinishFacts

LEMMA RejectFacts ==
    ASSUME Types, NEW p \in Procs, NEW reason, Reject(p, reason)
    PROVE  \E r : /\ Later(p, "done", r)
                  /\ r.trust = "rejected" /\ r.status = "error" /\ r.reason = reason
                  /\ r.made = result[p].made
<1> DEFINE o == [result[p] EXCEPT !.status = "error", !.trust = "rejected", !.reason = reason]
<1>1. /\ DOMAIN o = Fields /\ o.trust = "rejected" /\ o.status = "error" /\ o.reason = reason
      /\ o.made = result[p].made
  BY DEF Types, Fields
<1>2. Finish(p, o)
  BY DEF Reject
<1> HIDE DEF o
<1> QED  BY <1>1, <1>2, FinishFacts

LEMMA AcceptedFacts ==
    ASSUME Types, NEW p \in Procs
    PROVE  /\ DOMAIN Accepted(p) = Fields /\ Accepted(p).trust = "accepted" /\ Accepted(p).status = "ok"
           /\ Accepted(p).made = result[p].made
BY DEF Types, Fields, Accepted

LEMMA AcceptFacts ==
    ASSUME Types, NEW p \in Procs, Accept(p)
    PROVE  \E s, r : /\ Later(p, s, r)
                     /\ r.trust = "accepted" /\ r.status = "ok" /\ r.made = result[p].made
                     /\ s = "done" \/ (s = "resolve" /\ Command(p).op = "verify-attestation")
<1>1. CASE Command(p).op = "verify-attestation" /\ Command(p).current
  <2>1. Later(p, "resolve", Accepted(p))
    BY <1>1, AcceptedFacts DEF Accept, Later
  <2> QED  BY <1>1, <2>1, AcceptedFacts
<1>2. CASE ~(Command(p).op = "verify-attestation" /\ Command(p).current)
  <2>1. Finish(p, Accepted(p))
    BY <1>2 DEF Accept
  <2> QED  BY <2>1, AcceptedFacts, FinishFacts
<1> QED  BY <1>1, <1>2

LEMMA ConcludeFacts ==
    ASSUME Types, NEW p \in Procs, NEW answer, NEW about, Conclude(p, answer, about)
    PROVE  \E r : /\ Later(p, "done", r)
                  /\ r.trust = result[p].trust /\ r.made = result[p].made
                  /\ r.status \in {"ok", "error"}
<1> DEFINE status == IF answer.evaluation \in {"current", "fresh"} THEN "ok" ELSE "error"
           rests == IF answer.evaluation = "unknown" THEN {} ELSE about
           o == [result[p] EXCEPT !.status = status, !.reason = answer.reason,
                    !.evaluation = answer.evaluation, !.about = rests]
<1>1. Finish(p, o)
  BY DEF Conclude
<1>2. status \in {"ok", "error"}
  OBVIOUS
<1> HIDE DEF status, rests
<1>3. /\ DOMAIN o = Fields /\ o.trust = result[p].trust /\ o.made = result[p].made /\ o.status = status
  BY DEF Types, Fields
<1> HIDE DEF o
<1> QED  BY <1>1, <1>2, <1>3, FinishFacts

LEMMA KilledFacts ==
    ASSUME NEW p, Finish(p, [Running EXCEPT !.status = "killed"])
    PROVE  \E r : Later(p, "done", r) /\ r.trust = "none" /\ r.status = "killed" /\ r.made = {}
<1> DEFINE o == [Running EXCEPT !.status = "killed"]
<1>1. DOMAIN o = Fields /\ o.trust = "none" /\ o.status = "killed" /\ o.made = {}
  BY DEF Running, Fields
<1> HIDE DEF o
<1>2. Finish(p, o)
  BY DEF o
<1> QED  BY <1>1, <1>2, FinishFacts

\* What Unusable comes to for each purpose.
LEMMA UnusableFacts ==
    ASSUME Types, NEW p \in Procs, NEW reason, Unusable(p, reason)
    PROVE  \E r : /\ Later(p, "done", r)
                  /\ r.trust = result[p].trust /\ r.made = result[p].made
<1>1. Purpose(p) \in {"attest", "freshness", "sbom"}
  BY DEF Purpose
<1>2. CASE Purpose(p) = "attest"
  BY <1>2, FailFacts DEF Unusable
<1>3. CASE Purpose(p) = "sbom"
  BY <1>3, ConcludeFacts DEF Unusable, sbomCurrentnessUnknown
<1>4. CASE Purpose(p) = "freshness"
  BY <1>4, ConcludeFacts DEF Unusable, freshnessUnknown
<1> QED  BY <1>1, <1>2, <1>3, <1>4

\* State is kept with a signed policy, and a signed policy leaves the signer
\* to be looked up.
LEMMA TrustedKeepsNoState ==
    ASSUME NEW s \in Scripts, NEW i \in DOMAIN s.commands,
           s.commands[i].op = "verify-attestation", TrustOf(s.commands[i]) = "trusted"
    PROVE  ~s.commands[i].persist
<1> DEFINE c == s.commands[i]
<1>1. c.persist => c.mode \in SignedModes
  BY ScriptsAssumption DEF SignedModes, Verifying
<1>2. TrustOf(c) = "trusted" /\ c.persist \in BOOLEAN
  BY ScriptsAssumption DEF Verifying
<1> HIDE DEF c
<1>3. \A policy, minimum : VerifySignedOfflineTrustPolicyFloor(policy, minimum) # "trusted"
  BY DEF VerifySignedOfflineTrustPolicyFloor
<1>4. c.mode # "signed"
  BY <1>2, <1>3 DEF TrustOf, signedPolicy
<1>5. c.mode # "rotated"
  BY <1>2, <1>3 DEF TrustOf, verifyWithRotatedSignedOfflineTrustPolicy
<1>6. c.mode # "chained"
  BY <1>2, <1>3 DEF TrustOf, verifyWithChainedSignedOfflineTrustPolicy
<1>7. ~c.persist
  BY <1>1, <1>2, <1>4, <1>5, <1>6 DEF SignedModes
<1> QED  BY <1>7 DEF c

\* What has been accepted of a command's observations has been earned.
LEMMA SeenEarned ==
    ASSUME NEW s \in Scripts, NEW i \in DOMAIN s.commands, NEW step, NEW r,
           Local(s.commands[i], step, r), NEW a \in SeenAt(s.commands[i], step, r.trust)
    PROVE  Earns(s.commands[i], a)
<1> DEFINE c == s.commands[i]
<1> SUFFICES Earns(c, a)
  OBVIOUS
<1>0. Local(c, step, r) /\ a \in SeenAt(c, step, r.trust)
  OBVIOUS
<1>1. c.op \in Verifying /\ c.persist /\ a \in Observations(c)
  BY <1>0 DEF SeenAt
<1>2. c.op = "verify-attestation" => TrustOf(c) # "trusted"
  BY <1>1, TrustedKeepsNoState
<1> HIDE DEF c
<1>3. CASE r.trust = "accepted"
  <2>1. DocumentsOK(c)
    BY <1>0, <1>3 DEF Local, Outcome
  <2> QED  BY <1>1, <1>2, <2>1 DEF DocumentsOK, Earns, Verifying
<1>4. CASE r.trust # "accepted" /\ c.op = "verify-attestation"
  <2>1. step = "signer"
    BY <1>0, <1>1, <1>4 DEF SeenAt
  <2>2. BundleOK(c) /\ TrustOf(c) = "ok"
    BY <1>0, <1>4, <2>1 DEF Local, Reviewed
  <2> QED  BY <1>1, <1>4, <2>2 DEF Earns
<1>5. CASE r.trust # "accepted" /\ c.op = "verify-release-index"
  <2>1. \/ step \in PastAuthority /\ c.mode # "direct" /\ a = releaseAuthorityObservation(c)
        \/ step \in PastPolicy /\ a = releasePolicyObservation(c)
    BY <1>0, <1>1, <1>5 DEF SeenAt
  <2>2. CASE step \in PastAuthority /\ a = releaseAuthorityObservation(c)
    <3>1. IndexOK(c)
      BY <1>0, <1>5, <2>2 DEF Local, Reviewed
    <3>2. a.store \in {"release-chain", "release-authority"}
      BY <2>2 DEF releaseAuthorityObservation
    <3> QED  BY <1>1, <1>5, <3>1, <3>2 DEF Earns
  <2>3. CASE step \in PastPolicy /\ a = releasePolicyObservation(c)
    <3>1. IndexOK(c) /\ PolicyOK(c)
      BY <1>0, <1>5, <2>3 DEF Local, Reviewed, PastAuthority
    <3>2. a.store = "release-policy"
      BY <2>3 DEF releasePolicyObservation
    <3> QED  BY <1>1, <1>5, <3>1, <3>2 DEF Earns
  <2> QED  BY <2>1, <2>2, <2>3
<1> QED  BY <1>1, <1>3, <1>4, <1>5 DEF Verifying

LEMMA SeenNumbered ==
    ASSUME Inv, NEW p \in Procs, NEW a \in Seen(p)
    PROVE  Earns(Command(p), a) /\ Numbered(a)
<1>1. /\ script \in Scripts /\ p \in DOMAIN script.commands /\ Local(script.commands[p], pc[p], result[p])
      /\ a \in SeenAt(script.commands[p], pc[p], result[p].trust)
  BY DEF Inv, Types, Procs, Seen, Command
<1>2. Earns(script.commands[p], a)
  BY <1>1, SeenEarned
<1> QED  BY <1>1, <1>2, EarnedNumbered DEF Command

LEMMA RecordsNumbered ==
    ASSUME Inv
    PROVE  \A r \in reg : Numbered(r)
<1> SUFFICES ASSUME NEW r \in reg PROVE Numbered(r)
  OBVIOUS
<1>1. PICK p \in Procs : Earns(Command(p), r)
  BY DEF Inv, Earned
<1> QED  BY <1>1, EarnedNumbered DEF Inv, Types, Procs, Command

\* The step of a command at work: it may record what it has earned, and add to
\* what it has had accepted only what is as new as all that is recorded.
LEMMA StepKeepsInv ==
    ASSUME Inv, NEW p \in Procs, NEW s, NEW r, Later(p, s, r), pc[p] \notin {"idle", "done"}, s # "idle",
           Local(Command(p), s, r), script' = script, after' = after,
           OneRecord',
           \A x \in reg' : x \in reg \/ Earns(Command(p), x),
           \A x \in reg : \E y \in reg' : Same(x, y) /\ Ext(x, y),
           NEW new, SeenAt(Command(p), s, r.trust) \subseteq Seen(p) \cup new,
           \A o \in new : /\ Earns(Command(p), o)
                          /\ \E y \in reg' : Same(o, y) /\ Ext(o, y)
                          /\ \A x \in reg : Same(x, o) => Ext(x, o)
    PROVE  Inv'
<1>1. /\ Procs' = Procs /\ \A q \in Procs : Command(q)' = Command(q)
      /\ script \in Scripts /\ Procs = DOMAIN script.commands
  BY DEF Procs, Command, Inv, Types
<1>2. /\ DOMAIN pc = Procs /\ DOMAIN result = Procs /\ DOMAIN after = Procs
      /\ \A q \in Procs : DOMAIN result[q] = Fields
  BY DEF Inv, Types
<1>3. /\ DOMAIN pc' = Procs /\ DOMAIN result' = Procs /\ DOMAIN after' = Procs
      /\ pc'[p] = s /\ result'[p] = r
      /\ \A q \in Procs : q # p => pc'[q] = pc[q] /\ result'[q] = result[q]
  BY <1>2 DEF Later
<1>4. Types'
  BY <1>1, <1>2, <1>3 DEF Types, Later
<1>5. \A q \in Procs : Local(Command(q)', pc'[q], result'[q])
  BY <1>1, <1>3 DEF Inv
<1>6. /\ \A q \in Procs : q # p => Seen(q)' = Seen(q)
      /\ Seen(p)' \subseteq Seen(p) \cup new
  <2>1. ASSUME NEW q \in Procs
        PROVE  Seen(q)' = SeenAt(Command(q), pc'[q], result'[q].trust)
    BY <1>1 DEF Seen
  <2> QED  BY <2>1, <1>3 DEF Seen
<1>7. Earned'
  BY <1>1, <1>3 DEF Earned, Inv
<1>8. /\ \A x \in reg : Numbered(x)
      /\ \A o \in new : Numbered(o)
      /\ \A q \in Procs : \A a \in Seen(q) : Numbered(a)
  BY <1>1, RecordsNumbered, SeenNumbered, EarnedNumbered DEF Command
<1>9. \A x \in reg' : Numbered(x)
  BY <1>1, <1>8, EarnedNumbered DEF Command
<1>10. ASSUME NEW q \in Procs, NEW a \in Seen(q)
       PROVE  \E x \in reg : Same(a, x) /\ Ext(a, x)
  BY <1>10 DEF Inv, Covered
<1>11. ASSUME NEW q \in Procs, NEW a \in Seen(q), NEW o \in new, Same(a, o)
       PROVE  Ext(a, o)
  <2>1. PICK x \in reg : Same(a, x) /\ Ext(a, x)
    BY <1>10
  <2>2. Ext(x, o)
    BY <1>11, <2>1 DEF Same
  <2> QED  BY <2>1, <2>2, <1>8, ExtTransitive DEF Same
<1>12. Covered'
  <2> SUFFICES ASSUME NEW q \in Procs, NEW a \in Seen(q)'
               PROVE  \E y \in reg' : Same(a, y) /\ Ext(a, y)
    BY <1>1 DEF Covered
  <2>1. CASE a \in Seen(q)
    <3>1. PICK x \in reg : Same(a, x) /\ Ext(a, x)
      BY <1>10, <2>1
    <3>2. PICK y \in reg' : Same(x, y) /\ Ext(x, y)
      OBVIOUS
    <3> QED  BY <2>1, <3>1, <3>2, <1>8, <1>9, ExtTransitive DEF Same
  <2>2. CASE q = p /\ a \in new
    BY <2>2
  <2> QED  BY <2>1, <2>2, <1>6
<1>13. Chained'
  <2> SUFFICES ASSUME NEW q \in Procs, NEW t \in Procs, NEW a \in Seen(q)', NEW b \in Seen(t)', Same(a, b)
               PROVE  Ext(a, b) \/ Ext(b, a)
    BY <1>1 DEF Chained
  <2>1. CASE a \in Seen(q) /\ b \in Seen(t)
    BY <2>1 DEF Chained, Inv
  <2>2. CASE a \in Seen(q) /\ b \in new
    BY <2>2, <1>11
  <2>3. CASE a \in new /\ b \in Seen(t)
    BY <2>3, <1>11 DEF Same
  <2>4. CASE a \in new /\ b \in new
    <3>1. a.store = b.store /\ a \in Observations(Command(p)) /\ b \in Observations(Command(p))
      BY <2>4 DEF Same, Earns
    <3>2. a = b
      <4>1. CASE Command(p).op = "verify-attestation"
        BY <3>1, <4>1 DEF Observations
      <4>2. CASE Command(p).op # "verify-attestation"
        <5>1. /\ releaseIndexObservation(Command(p)).store = "release-index"
              /\ releasePolicyObservation(Command(p)).store = "release-policy"
              /\ releaseAuthorityObservation(Command(p)).store \in {"release-chain", "release-authority"}
          BY DEF releaseIndexObservation, releasePolicyObservation, releaseAuthorityObservation
        <5>2. \A x \in {a, b} : x \in {releasePolicyObservation(Command(p)), releaseIndexObservation(Command(p)),
                                      releaseAuthorityObservation(Command(p))}
          BY <3>1, <4>2 DEF Observations
        <5> QED  BY <3>1, <5>1, <5>2
      <4> QED  BY <4>1, <4>2
    <3> QED  BY <2>4, <3>2, <1>8, ExtReflexive
  <2> QED  BY <2>1, <2>2, <2>3, <2>4, <1>6
<1>14. InOrder'
  <2> SUFFICES ASSUME NEW q \in Procs, NEW t \in after[q]
               PROVE  /\ t \in Procs /\ pc'[t] = "done"
                      /\ \A a \in Seen(t)', b \in Seen(q)' : Same(a, b) => Ext(a, b)
    BY <1>1 DEF InOrder
  <2>1. /\ t \in Procs /\ pc[t] = "done"
        /\ \A a \in Seen(t), b \in Seen(q) : Same(a, b) => Ext(a, b)
    BY DEF Inv, InOrder
  <2>2. t # p
    BY <2>1
  <2>3. pc'[t] = "done" /\ Seen(t)' = Seen(t)
    BY <2>1, <2>2, <1>3, <1>6
  <2>4. ASSUME NEW a \in Seen(t), NEW b \in Seen(q)', Same(a, b)
        PROVE  Ext(a, b)
    BY <2>1, <2>4, <1>6, <1>11
  <2> QED  BY <2>1, <2>3, <2>4
<1> QED  BY <1>1, <1>4, <1>5, <1>7, <1>12, <1>13, <1>14 DEF Inv

Quiet(p) ==
    \E s, r : /\ Later(p, s, r) /\ s # "idle" /\ Local(Command(p), s, r)
              /\ SeenAt(Command(p), s, r.trust) \subseteq Seen(p)

Watched(p) ==
    \E o, evaluation, s, r :
        /\ Observe(o, evaluation) /\ Earns(Command(p), o)
        /\ Later(p, s, r) /\ s # "idle" /\ Local(Command(p), s, r)
        /\ \/ SeenAt(Command(p), s, r.trust) \subseteq Seen(p)
           \/ /\ acceptedStateEvaluation(evaluation)
              /\ SeenAt(Command(p), s, r.trust) \subseteq Seen(p) \cup {o}

AtWork(p) == p \in Procs /\ pc[p] \notin {"idle", "done"}

LEMMA QuietKeepsInv ==
    ASSUME Inv, NEW p, AtWork(p), Quiet(p), script' = script, after' = after, reg' = reg
    PROVE  Inv'
<1>1. PICK s, r : /\ Later(p, s, r) /\ s # "idle" /\ Local(Command(p), s, r)
                  /\ SeenAt(Command(p), s, r.trust) \subseteq Seen(p)
  BY DEF Quiet
<1>2. OneRecord'
  BY DEF Inv, OneRecord
<1>3. \A x \in reg : \E y \in reg' : Same(x, y) /\ Ext(x, y)
  BY RecordsNumbered, ExtReflexive DEF Same
<1>4. SeenAt(Command(p), s, r.trust) \subseteq Seen(p) \cup {}
  BY <1>1
<1>5. p \in Procs /\ pc[p] \notin {"idle", "done"}
  BY DEF AtWork
<1> DEFINE new == {}
<1>6. SeenAt(Command(p), s, r.trust) \subseteq Seen(p) \cup new
  BY <1>4
<1>7. \A o \in new : /\ Earns(Command(p), o)
                     /\ \E y \in reg' : Same(o, y) /\ Ext(o, y)
                     /\ \A x \in reg : Same(x, o) => Ext(x, o)
  OBVIOUS
<1>8. \A x \in reg' : x \in reg \/ Earns(Command(p), x)
  OBVIOUS
<1> HIDE DEF new
<1> QED  BY <1>1, <1>2, <1>3, <1>5, <1>6, <1>7, <1>8, StepKeepsInv

LEMMA WatchedKeepsInv ==
    ASSUME Inv, NEW p, AtWork(p), Watched(p), script' = script, after' = after
    PROVE  Inv'
<1>1. PICK o, evaluation, s, r :
        /\ Observe(o, evaluation) /\ Earns(Command(p), o)
        /\ Later(p, s, r) /\ s # "idle" /\ Local(Command(p), s, r)
        /\ \/ SeenAt(Command(p), s, r.trust) \subseteq Seen(p)
           \/ /\ acceptedStateEvaluation(evaluation)
              /\ SeenAt(Command(p), s, r.trust) \subseteq Seen(p) \cup {o}
  BY DEF Watched
<1>2. p \in Procs /\ pc[p] \notin {"idle", "done"}
  BY DEF AtWork
<1>3. Numbered(o)
  BY <1>1, <1>2, EarnedNumbered DEF Inv, Types, Procs, Command
<1>4. OneRecord /\ \A x \in reg : Numbered(x)
  BY RecordsNumbered DEF Inv
<1>5. /\ OneRecord'
      /\ \A x \in reg' : x \in reg \/ x = o
      /\ \A x \in reg : \E y \in reg' : Same(x, y) /\ Ext(x, y)
      /\ acceptedStateEvaluation(evaluation) =>
           /\ \E y \in reg' : Same(o, y) /\ Ext(o, y)
           /\ \A x \in reg : Same(x, o) => Ext(x, o)
  BY <1>1, <1>3, <1>4, ObserveFacts
<1>6. \A x \in reg' : x \in reg \/ Earns(Command(p), x)
  BY <1>1, <1>5
<1> DEFINE new == IF acceptedStateEvaluation(evaluation) THEN {o} ELSE {}
<1>7. SeenAt(Command(p), s, r.trust) \subseteq Seen(p) \cup new
  BY <1>1
<1>8. \A x \in new : /\ Earns(Command(p), x)
                     /\ \E y \in reg' : Same(x, y) /\ Ext(x, y)
                     /\ \A z \in reg : Same(z, x) => Ext(z, x)
  BY <1>1, <1>5
<1> HIDE DEF new
<1> QED  BY <1>1, <1>2, <1>5, <1>6, <1>7, <1>8, StepKeepsInv

-----------------------------------------------------------------------------
(* Endings. *)

LEMMA ErrorLocal ==
    ASSUME NEW c, NEW r, r.trust # "accepted",
           c.op \in Verifying =>
             r.status = "killed" \/ r.reason \in StateReasons \cup {"artifacts"} \/ ~DocumentsOK(c)
    PROVE  Local(c, "done", r) /\ SeenAt(c, "done", r.trust) = {}
<1>1. Reviewed(c, "done") /\ RightStep(c, "done")
  BY DEF Reviewed, RightStep, PastAuthority, PastPolicy, AtArtifacts, Comparing
<1>2. Outcome(c, "done", r)
  BY DEF Outcome, Comparing
<1>3. SeenAt(c, "done", r.trust) = {}
  BY DEF SeenAt, PastAuthority, PastPolicy, AtArtifacts
<1> QED  BY <1>1, <1>2, <1>3 DEF Local

LEMMA AcceptedLocal ==
    ASSUME NEW c, NEW s, NEW r, r.trust = "accepted", c.op \in Verifying, DocumentsOK(c),
           s = "done" \/ (c.op = "verify-attestation" /\ s \in Comparing \ {"build"})
    PROVE  Local(c, s, r) /\ SeenAt(c, s, r.trust) = IF c.persist THEN Observations(c) ELSE {}
<1>1. Reviewed(c, s) /\ RightStep(c, s)
  BY DEF Reviewed, RightStep, PastAuthority, PastPolicy, AtArtifacts, Comparing
<1>2. Outcome(c, s, r)
  BY DEF Outcome
<1>3. SeenAt(c, s, r.trust) = IF c.persist THEN Observations(c) ELSE {}
  BY DEF SeenAt
<1> QED  BY <1>1, <1>2, <1>3 DEF Local

\* A command that is not a verifying one has no trust to tell of.
LEMMA IssuerLocal ==
    ASSUME NEW c, NEW s, NEW r, c.op \notin Verifying, r.trust # "accepted", RightStep(c, s)
    PROVE  Local(c, s, r) /\ SeenAt(c, s, r.trust) = {}
BY DEF Local, Reviewed, Outcome, SeenAt, Verifying

\* On the way nothing is decided.
LEMMA WayLocal ==
    ASSUME NEW c, NEW s, NEW r, c.op \in Verifying, r.trust # "accepted", Reviewed(c, s), RightStep(c, s),
           s \notin Comparing \cup {"done"}
    PROVE  Local(c, s, r)
BY DEF Local, Outcome

LEMMA Unaccepted ==
    ASSUME Inv, NEW p \in Procs, pc[p] \notin Comparing \cup {"done"} \/ Command(p).op \notin Verifying
    PROVE  result[p].trust # "accepted"
BY DEF Inv, Local, Outcome

LEMMA KillQuiet ==
    ASSUME Inv, NEW p \in Procs, Kill(p)
    PROVE  Quiet(p)
<1>1. PICK r : Later(p, "done", r) /\ r.trust = "none" /\ r.status = "killed"
  BY KilledFacts DEF Kill
<1> QED  BY <1>1, ErrorLocal DEF Quiet

\* A verifying command that fails for a good reason, or a rejecting one.
LEMMA FailQuiet ==
    ASSUME Inv, NEW p \in Procs, NEW reason, Fail(p, reason), result[p].trust # "accepted",
           Command(p).op \in Verifying =>
             reason \in StateReasons \cup {"artifacts"} \/ ~DocumentsOK(Command(p))
    PROVE  Quiet(p)
<1>1. PICK r : Later(p, "done", r) /\ r.trust = result[p].trust /\ r.reason = reason
  BY FailFacts DEF Inv
<1> QED  BY <1>1, ErrorLocal DEF Quiet

LEMMA RejectQuiet ==
    ASSUME Inv, NEW p \in Procs, NEW reason, Reject(p, reason),
           Command(p).op \in Verifying =>
             reason \in StateReasons \cup {"artifacts"} \/ ~DocumentsOK(Command(p))
    PROVE  Quiet(p)
<1>1. PICK r : Later(p, "done", r) /\ r.trust = "rejected" /\ r.reason = reason
  BY RejectFacts DEF Inv
<1> QED  BY <1>1, ErrorLocal DEF Quiet

LEMMA AcceptQuiet ==
    ASSUME Inv, NEW p \in Procs, Accept(p), Command(p).op \in Verifying, DocumentsOK(Command(p)),
           Command(p).persist => Seen(p) = Observations(Command(p))
    PROVE  Quiet(p)
<1>1. PICK s, r : /\ Later(p, s, r) /\ r.trust = "accepted"
                  /\ s = "done" \/ (s = "resolve" /\ Command(p).op = "verify-attestation")
  BY AcceptFacts DEF Inv
<1>2. s = "done" \/ (Command(p).op = "verify-attestation" /\ s \in Comparing \ {"build"})
  BY <1>1 DEF Comparing
<1>3. Local(Command(p), s, r) /\ SeenAt(Command(p), s, r.trust) \subseteq Seen(p)
  BY <1>1, <1>2, AcceptedLocal
<1> QED  BY <1>1, <1>3 DEF Quiet

LEMMA GotoQuiet ==
    ASSUME Inv, NEW p \in Procs, NEW s, Goto(p, s), s # "idle", Local(Command(p), s, result[p]),
           SeenAt(Command(p), s, result[p].trust) \subseteq Seen(p)
    PROVE  Quiet(p)
BY GotoFacts DEF Inv, Quiet

-----------------------------------------------------------------------------
(* verify-attestation. *)

LEMMA VerifyAttestationQuiet ==
    ASSUME Inv, NEW p \in Procs, VerifyAttestation(p)
    PROVE  Quiet(p)
<1> DEFINE c == Command(p)
<1>1. c.op = "verify-attestation" /\ c.op \in Verifying /\ pc[p] = "start"
  BY DEF VerifyAttestation, Verifying
<1>2. result[p].trust # "accepted"
  BY <1>1, Unaccepted DEF Comparing
<1>3. CASE ~BundleOK(c)
  <2>1. Fail(p, "invalid-bundle")
    BY <1>3 DEF VerifyAttestation, BundleOK
  <2>2. ~DocumentsOK(c)
    BY <1>1, <1>3 DEF DocumentsOK
  <2> QED  BY <1>2, <2>1, <2>2, FailQuiet
<1>4. CASE BundleOK(c) /\ TrustOf(c) = "trusted"
  <2>1. Accept(p)
    BY <1>4 DEF VerifyAttestation, BundleOK, DecideSigner
  <2>2. DocumentsOK(c)
    BY <1>1, <1>4 DEF DocumentsOK
  <2>3. ~c.persist
    BY <1>1, <1>4, TrustedKeepsNoState DEF Inv, Types, Procs, Command
  <2> QED  BY <1>1, <2>1, <2>2, <2>3, AcceptQuiet
<1>5. CASE BundleOK(c) /\ TrustOf(c) \notin {"trusted", "ok"}
  <2>1. Reject(p, TrustOf(c))
    BY <1>5 DEF VerifyAttestation, BundleOK, DecideSigner
  <2>2. ~DocumentsOK(c)
    BY <1>1, <1>5 DEF DocumentsOK
  <2> QED  BY <2>1, <2>2, RejectQuiet
<1>6. CASE BundleOK(c) /\ TrustOf(c) = "ok"
  <2> DEFINE s == IF c.persist THEN "policy-state" ELSE "signer"
  <2>1. Goto(p, s)
    BY <1>6 DEF VerifyAttestation, BundleOK
  <2>2. Reviewed(c, s) /\ RightStep(c, s)
    BY <1>1, <1>6 DEF Reviewed, RightStep, Comparing, PastAuthority, PastPolicy, AtArtifacts
  <2>3. Local(c, s, result[p])
    BY <1>1, <1>2, <2>2, WayLocal DEF Comparing
  <2>4. SeenAt(c, s, result[p].trust) = {}
    BY <1>1, <1>2 DEF SeenAt
  <2> QED  BY <2>1, <2>3, <2>4, GotoQuiet
<1> QED  BY <1>3, <1>4, <1>5, <1>6

LEMMA ObservePolicyStateWatched ==
    ASSUME Inv, NEW p \in Procs, ObservePolicyState(p)
    PROVE  Watched(p)
<1> DEFINE c == Command(p)
           o == attestationObservation(c)
<1>1. c.op = "verify-attestation" /\ c.op \in Verifying /\ pc[p] = "policy-state"
  BY DEF ObservePolicyState, Verifying
<1>2. result[p].trust # "accepted"
  BY <1>1, Unaccepted DEF Comparing
<1>3. BundleOK(c) /\ TrustOf(c) = "ok" /\ c.persist
  BY <1>1 DEF Inv, Local, Reviewed, RightStep
<1>4. Earns(c, o) /\ Observations(c) = {o}
  BY <1>1, <1>3 DEF Earns, Observations
<1>5. PICK evaluation \in AcceptedEvaluations \cup StateReasons :
        /\ Observe(o, evaluation)
        /\ IF acceptedStateEvaluation(evaluation) THEN Goto(p, "signer") ELSE Reject(p, evaluation)
  BY DEF ObservePolicyState, StateReasons
<1>6. CASE acceptedStateEvaluation(evaluation)
  <2>1. Later(p, "signer", result[p])
    BY <1>5, <1>6, GotoFacts DEF Inv
  <2>2. Reviewed(c, "signer") /\ RightStep(c, "signer")
    BY <1>1, <1>3 DEF Reviewed, RightStep, Comparing, PastAuthority, PastPolicy, AtArtifacts
  <2>3. Local(c, "signer", result[p])
    BY <1>1, <1>2, <2>2, WayLocal DEF Comparing
  <2>4. SeenAt(c, "signer", result[p].trust) \subseteq Seen(p) \cup {o}
    BY <1>1, <1>2, <1>4 DEF SeenAt
  <2> QED  BY <1>4, <1>5, <1>6, <2>1, <2>3, <2>4 DEF Watched
<1>7. CASE ~acceptedStateEvaluation(evaluation)
  <2>1. PICK r : Later(p, "done", r) /\ r.trust = "rejected" /\ r.reason = evaluation
    BY <1>5, <1>7, RejectFacts DEF Inv
  <2>2. evaluation \in StateReasons
    BY <1>5, <1>7 DEF acceptedStateEvaluation
  <2>3. Local(c, "done", r) /\ SeenAt(c, "done", r.trust) = {}
    BY <2>1, <2>2, ErrorLocal
  <2> QED  BY <1>4, <1>5, <2>1, <2>3 DEF Watched
<1> QED  BY <1>6, <1>7

LEMMA VerifySignerQuiet ==
    ASSUME Inv, NEW p \in Procs, VerifySigner(p)
    PROVE  Quiet(p)
<1> DEFINE c == Command(p)
           decision == VerifySignedOfflineTrustPolicySigner(c.policy.payload, Signer(c.bundle))
<1>1. c.op = "verify-attestation" /\ c.op \in Verifying /\ pc[p] = "signer"
  BY DEF VerifySigner, Verifying
<1>2. result[p].trust # "accepted"
  BY <1>1, Unaccepted DEF Comparing
<1>3. BundleOK(c) /\ TrustOf(c) = "ok"
  BY <1>1 DEF Inv, Local, Reviewed
<1>4. DecideSigner(p, decision)
  BY DEF VerifySigner
<1>5. CASE decision = "trusted"
  <2>1. Accept(p)
    BY <1>4, <1>5 DEF DecideSigner
  <2>2. DocumentsOK(c)
    BY <1>1, <1>3, <1>5 DEF DocumentsOK, SignerTrusted
  <2>3. c.persist => Seen(p) = Observations(c)
    BY <1>1, <1>2 DEF Seen, SeenAt
  <2> QED  BY <1>1, <2>1, <2>2, <2>3, AcceptQuiet
<1>6. CASE decision # "trusted"
  <2>1. Reject(p, decision)
    BY <1>4, <1>6 DEF DecideSigner
  <2>2. ~DocumentsOK(c)
    BY <1>1, <1>3, <1>6 DEF DocumentsOK, SignerTrusted
  <2> QED  BY <2>1, <2>2, RejectQuiet
<1> QED  BY <1>5, <1>6

-----------------------------------------------------------------------------
(* Comparing with the tree: trust stays as it is. *)

Compares(p) ==
    \E s, r : /\ Later(p, s, r) /\ r.trust = result[p].trust
              /\ s \in Comparing \cup {"done"} /\ RightStep(Command(p), s)

LEMMA DoneIsRight ==
    ASSUME NEW c
    PROVE  RightStep(c, "done")
BY DEF RightStep, Comparing

LEMMA ComparesQuiet ==
    ASSUME Inv, NEW p \in Procs, pc[p] \in Comparing, Compares(p)
    PROVE  Quiet(p)
<1> DEFINE c == Command(p)
<1>1. PICK s, r : /\ Later(p, s, r) /\ r.trust = result[p].trust
                  /\ s \in Comparing \cup {"done"} /\ RightStep(c, s)
  BY DEF Compares
<1>2. Local(c, pc[p], result[p])
  BY DEF Inv
<1>3. s # "idle"
  BY <1>1 DEF Comparing
<1>4. CASE c.op = "verify-attestation"
  <2>1. result[p].trust = "accepted" /\ DocumentsOK(c)
    BY <1>2, <1>4 DEF Local, Outcome
  <2>2. s # "build"
    BY <1>1, <1>4 DEF RightStep
  <2>3. pc[p] # "build"
    BY <1>2, <1>4 DEF Local, RightStep
  <2>4. c.op \in Verifying
    BY <1>4 DEF Verifying
  <2>5. Local(c, s, r) /\ SeenAt(c, s, r.trust) = IF c.persist THEN Observations(c) ELSE {}
    BY <1>1, <1>4, <2>1, <2>2, <2>4, AcceptedLocal
  <2>6. Seen(p) = IF c.persist THEN Observations(c) ELSE {}
    BY <1>4, <2>1, <2>3, <2>4, AcceptedLocal DEF Seen
  <2> QED  BY <1>1, <1>3, <2>5, <2>6 DEF Quiet
<1>5. CASE c.op # "verify-attestation"
  <2>1. c.op \notin Verifying
    BY <1>2, <1>5 DEF Local, RightStep, Verifying
  <2>2. Local(c, s, r) /\ SeenAt(c, s, r.trust) = {}
    BY <1>1, <2>1, Unaccepted, IssuerLocal
  <2> QED  BY <1>1, <1>3, <2>2 DEF Quiet
<1> QED  BY <1>4, <1>5

LEMMA GotoCompares ==
    ASSUME Inv, NEW p \in Procs, NEW s \in Comparing, Goto(p, s), RightStep(Command(p), s)
    PROVE  Compares(p)
BY GotoFacts DEF Inv, Compares

LEMMA FailCompares ==
    ASSUME Inv, NEW p \in Procs, NEW reason, Fail(p, reason)
    PROVE  Compares(p)
BY FailFacts, DoneIsRight DEF Inv, Compares

LEMMA UnusableCompares ==
    ASSUME Inv, NEW p \in Procs, NEW reason, Unusable(p, reason)
    PROVE  Compares(p)
BY UnusableFacts, DoneIsRight DEF Inv, Compares

LEMMA ConcludeCompares ==
    ASSUME Inv, NEW p \in Procs, NEW answer, NEW about, Conclude(p, answer, about)
    PROVE  Compares(p)
BY ConcludeFacts, DoneIsRight DEF Inv, Compares

LEMMA PurposeFacts ==
    ASSUME Inv, NEW p \in Procs, pc[p] \in Comparing
    PROVE  /\ Purpose(p) \in {"attest", "freshness", "sbom"}
           /\ Command(p).op \in {"verify-attestation", "attest"}
           /\ Purpose(p) = "attest" <=> Command(p).op = "attest"
BY DEF Purpose, Inv, Local, RightStep

LEMMA RightComparing ==
    ASSUME NEW c, c.op \in {"verify-attestation", "attest"}
    PROVE  /\ \A s \in {"list", "walk", "lock", "package"} : s \in Comparing /\ RightStep(c, s)
           /\ c.op = "attest" => RightStep(c, "build")
           /\ c.op = "verify-attestation" => RightStep(c, "plan") /\ RightStep(c, "runner")
           /\ {"plan", "build", "runner", "resolve"} \subseteq Comparing
BY DEF RightStep, Comparing

LEMMA ResolveSourceCompares ==
    ASSUME Inv, NEW p \in Procs, ResolveSource(p)
    PROVE  pc[p] \in Comparing /\ Compares(p)
<1>1. pc[p] \in Comparing
  BY DEF ResolveSource, Comparing
<1>2. (\E answer : Conclude(p, answer, {})) \/ Goto(p, "list") \/ Unusable(p, "source-unavailable")
  BY DEF ResolveSource
<1> QED  BY <1>1, <1>2, PurposeFacts, RightComparing, ConcludeCompares, GotoCompares, UnusableCompares

LEMMA ListTreeCompares ==
    ASSUME Inv, NEW p \in Procs, ListTree(p)
    PROVE  pc[p] \in Comparing /\ Compares(p)
<1>1. pc[p] \in Comparing /\ Goto(p, "walk")
  BY DEF ListTree, Comparing
<1> QED  BY <1>1, PurposeFacts, RightComparing, GotoCompares

LEMMA VisitFileCompares ==
    ASSUME Inv, NEW p \in Procs, VisitFile(p)
    PROVE  pc[p] \in Comparing /\ (Compares(p) \/ UNCHANGED <<pc, result>>)
<1>1. pc[p] \in Comparing /\ (Unusable(p, "source-unavailable") \/ UNCHANGED <<pc, result>>)
  BY DEF VisitFile, Comparing
<1> QED  BY <1>1, UnusableCompares

LEMMA UseSecondCompares ==
    ASSUME Inv, NEW p \in Procs, pc[p] \in Comparing, NEW snapshot, UseSecond(p, snapshot)
    PROVE  Compares(p)
<1>1. CASE Purpose(p) = "freshness"
  <2>1. Goto(p, "plan") \/ (\E answer, about : Conclude(p, answer, about))
    BY <1>1 DEF UseSecond
  <2> QED  BY <1>1, <2>1, PurposeFacts, RightComparing, GotoCompares, ConcludeCompares
<1>2. CASE Purpose(p) = "attest"
  <2>1. Fail(p, "subject-mismatch") \/ Goto(p, "lock") \/ Unusable(p, "unsupported-inputs")
    BY <1>2 DEF UseSecond
  <2> QED  BY <2>1, PurposeFacts, RightComparing, FailCompares, GotoCompares, UnusableCompares
<1>3. CASE Purpose(p) = "sbom"
  <2>1. Goto(p, "lock") \/ Unusable(p, "unsupported-inputs")
    BY <1>3 DEF UseSecond
  <2> QED  BY <2>1, PurposeFacts, RightComparing, GotoCompares, UnusableCompares
<1> QED  BY <1>1, <1>2, <1>3, PurposeFacts

LEMMA UseThirdCompares ==
    ASSUME Inv, NEW p \in Procs, pc[p] \in Comparing, NEW snapshot, UseThird(p, snapshot)
    PROVE  Compares(p)
<1>1. CASE Purpose(p) = "freshness"
  <2>1. Goto(p, "runner") \/ (\E answer, about : Conclude(p, answer, about))
    BY <1>1 DEF UseThird
  <2> QED  BY <1>1, <2>1, PurposeFacts, RightComparing, GotoCompares, ConcludeCompares
<1>2. CASE Purpose(p) = "attest"
  <2>1. Goto(p, "build")
    BY <1>2 DEF UseThird
  <2> QED  BY <1>2, <2>1, PurposeFacts, RightComparing, GotoCompares
<1>3. CASE Purpose(p) = "sbom"
  <2>1. \E answer, about : Conclude(p, answer, about)
    BY <1>3 DEF UseThird
  <2> QED  BY <2>1, ConcludeCompares
<1> QED  BY <1>1, <1>2, <1>3, PurposeFacts

LEMMA EndWalkCompares ==
    ASSUME Inv, NEW p \in Procs, EndWalk(p)
    PROVE  pc[p] \in Comparing /\ Compares(p)
<1>1. pc[p] \in Comparing
  BY DEF EndWalk, Comparing
<1>2. \/ Goto(p, "list") \/ Unusable(p, "source-unstable")
      \/ \E snapshot : UseSecond(p, snapshot) \/ UseThird(p, snapshot)
  BY DEF EndWalk
<1> QED  BY <1>1, <1>2, PurposeFacts, RightComparing, GotoCompares, UnusableCompares,
            UseSecondCompares, UseThirdCompares

LEMMA ReadPlanCompares ==
    ASSUME Inv, NEW p \in Procs, ReadPlan(p)
    PROVE  pc[p] \in Comparing /\ Compares(p)
<1>1. pc[p] \in Comparing
  BY DEF ReadPlan, Comparing
<1>2. Goto(p, "list") \/ \E answer, about : Conclude(p, answer, about)
  BY DEF ReadPlan, freshnessUnknown
<1> QED  BY <1>1, <1>2, PurposeFacts, RightComparing, GotoCompares, ConcludeCompares

LEMMA ReadDerivedInputCompares ==
    ASSUME Inv, NEW p \in Procs, ReadDerivedInput(p)
    PROVE  pc[p] \in Comparing /\ Compares(p)
<1>1. pc[p] \in Comparing
  BY DEF ReadDerivedInput, Comparing
<1>2. \/ Goto(p, "list") \/ Goto(p, "package")
      \/ Unusable(p, "unsupported-inputs") \/ Unusable(p, "privacy-blocked")
  BY DEF ReadDerivedInput
<1> QED  BY <1>1, <1>2, PurposeFacts, RightComparing, GotoCompares, UnusableCompares

LEMMA ProbeCompares ==
    ASSUME Inv, NEW p \in Procs, ProbeFreshnessRunner(p)
    PROVE  pc[p] \in Comparing /\ Compares(p)
<1>1. pc[p] \in Comparing
  BY DEF ProbeFreshnessRunner, Comparing
<1>2. \E answer, about : Conclude(p, answer, about)
  BY DEF ProbeFreshnessRunner, freshnessUnknown
<1> QED  BY <1>1, <1>2, ConcludeCompares

-----------------------------------------------------------------------------
(* The commands that sign. *)

LEMMA IssuerQuiet ==
    ASSUME Inv, NEW p \in Procs, Command(p).op \notin Verifying, NEW s, NEW r, Later(p, s, r),
           r.trust = result[p].trust, s # "idle", RightStep(Command(p), s)
    PROVE  Quiet(p)
BY Unaccepted, IssuerLocal DEF Quiet

LEMMA MadeFacts ==
    ASSUME Types, NEW p \in Procs, NEW made, NEW about,
           Finish(p, [result[p] EXCEPT !.status = "ok", !.made = made, !.about = about])
    PROVE  \E r : Later(p, "done", r) /\ r.trust = result[p].trust /\ r.status = "ok" /\ r.made = made
<1> DEFINE o == [result[p] EXCEPT !.status = "ok", !.made = made, !.about = about]
<1>1. DOMAIN o = Fields /\ o.trust = result[p].trust /\ o.status = "ok" /\ o.made = made
  BY DEF Types, Fields
<1>2. Finish(p, o)
  OBVIOUS
<1> HIDE DEF o
<1> QED  BY <1>1, <1>2, FinishFacts

LEMMA AttestQuiet ==
    ASSUME Inv, NEW p \in Procs, Attest(p)
    PROVE  Quiet(p)
<1>1. Command(p).op = "attest" /\ Command(p).op \notin Verifying
  BY DEF Attest, Verifying
<1>2. Fail(p, "evidence") \/ Goto(p, "resolve") \/ Goto(p, "build")
  BY DEF Attest
<1>3. RightStep(Command(p), "resolve") /\ RightStep(Command(p), "build") /\ RightStep(Command(p), "done")
  BY <1>1 DEF RightStep, Comparing
<1> QED  BY <1>1, <1>2, <1>3, FailFacts, GotoFacts, IssuerQuiet DEF Inv

LEMMA BuildBundleQuiet ==
    ASSUME Inv, NEW p \in Procs, BuildBundle(p)
    PROVE  Quiet(p)
<1>1. Command(p).op = "attest" /\ Command(p).op \notin Verifying
  BY DEF BuildBundle, Inv, Local, RightStep, Verifying
<1>2. Fail(p, "signing") \/ \E made, about :
        Finish(p, [result[p] EXCEPT !.status = "ok", !.made = made, !.about = about])
  BY DEF BuildBundle
<1> QED  BY <1>1, <1>2, FailFacts, MadeFacts, IssuerQuiet, DoneIsRight DEF Inv

LEMMA SignReleaseIndexQuiet ==
    ASSUME Inv, NEW p \in Procs, SignReleaseIndex(p)
    PROVE  Quiet(p)
<1>1. Command(p).op = "sign-release-index" /\ Command(p).op \notin Verifying /\ Goto(p, "scan")
  BY DEF SignReleaseIndex, Verifying
<1>2. RightStep(Command(p), "scan")
  BY <1>1 DEF RightStep, Comparing
<1> QED  BY <1>1, <1>2, GotoFacts, IssuerQuiet DEF Inv

LEMMA IssueQuiet ==
    ASSUME Inv, NEW p \in Procs, Issue(p)
    PROVE  Quiet(p)
<1>1. Command(p).op = "issue" /\ Command(p).op \notin Verifying
  BY DEF Issue, Verifying
<1>2. CASE Fail(p, "signing")
  BY <1>1, <1>2, FailFacts, IssuerQuiet, DoneIsRight DEF Inv
<1>3. CASE Finish(p, [result[p] EXCEPT !.status = "ok", !.made = Issued(Command(p))])
  <2> DEFINE o == [result[p] EXCEPT !.status = "ok", !.made = Issued(Command(p))]
  <2>1. DOMAIN o = Fields /\ o.trust = result[p].trust
    BY DEF Inv, Types, Fields
  <2>2. Finish(p, o)
    BY <1>3
  <2> HIDE DEF o
  <2> QED  BY <1>1, <2>1, <2>2, FinishFacts, IssuerQuiet, DoneIsRight
<1> QED  BY <1>2, <1>3 DEF Issue

-----------------------------------------------------------------------------
(* verify-release-index. *)

LEMMA ReleaseIsVerifying ==
    ASSUME NEW c, c.op = "verify-release-index"
    PROVE  /\ c.op \in Verifying /\ c.op # "verify-attestation"
           /\ DocumentsOK(c) <=> (IndexOK(c) /\ PolicyOK(c) /\ Authorized(c))
BY DEF Verifying, DocumentsOK

LEMMA ReleasePolicyFacts ==
    ASSUME Inv, NEW p \in Procs, ReleasePolicy(p), Command(p).op = "verify-release-index",
           IndexOK(Command(p)), result[p].trust # "accepted"
    PROVE  \E s, r : /\ Later(p, s, r) /\ s # "idle" /\ Local(Command(p), s, r)
                     /\ SeenAt(Command(p), s, r.trust) \subseteq
                          IF Command(p).mode = "direct" \/ ~Command(p).persist THEN {}
                          ELSE {releaseAuthorityObservation(Command(p))}
<1> DEFINE c == Command(p)
<1>1. CASE ~PolicyOK(c)
  <2>1. Reject(p, "policy")
    BY <1>1 DEF ReleasePolicy, PolicyOK
  <2>2. PICK r : Later(p, "done", r) /\ r.trust = "rejected"
    BY <2>1, RejectFacts DEF Inv
  <2>3. Local(c, "done", r) /\ SeenAt(c, "done", r.trust) = {}
    BY <1>1, <2>2, ErrorLocal, ReleaseIsVerifying
  <2> QED  BY <2>2, <2>3
<1>2. CASE PolicyOK(c)
  <2> DEFINE s == IF c.persist THEN "policy-state" ELSE "authorize"
  <2>1. Goto(p, s)
    BY <1>2 DEF ReleasePolicy, PolicyOK
  <2>2. Later(p, s, result[p])
    BY <2>1, GotoFacts DEF Inv
  <2>3. Reviewed(c, s) /\ RightStep(c, s)
    BY <1>2 DEF Reviewed, RightStep, Comparing, PastAuthority, PastPolicy, AtArtifacts, Verifying
  <2>4. Local(c, s, result[p])
    BY <2>3, WayLocal, ReleaseIsVerifying DEF Comparing
  <2>5. SeenAt(c, s, result[p].trust) \subseteq
           IF c.mode = "direct" \/ ~c.persist THEN {} ELSE {releaseAuthorityObservation(c)}
    BY DEF SeenAt, PastAuthority, PastPolicy, AtArtifacts, Verifying
  <2> QED  BY <2>2, <2>4, <2>5
<1> QED  BY <1>1, <1>2

LEMMA VerifyReleaseIndexQuiet ==
    ASSUME Inv, NEW p \in Procs, VerifyReleaseIndex(p)
    PROVE  Quiet(p)
<1> DEFINE c == Command(p)
<1>1. c.op = "verify-release-index" /\ pc[p] = "start"
  BY DEF VerifyReleaseIndex
<1>2. result[p].trust # "accepted"
  BY <1>1, Unaccepted DEF Comparing
<1>3. CASE ~IndexOK(c)
  <2>1. Fail(p, "integrity") \/ Fail(p, "signature") \/ Reject(p, "authority")
    BY <1>3 DEF VerifyReleaseIndex, IndexOK
  <2> QED  BY <1>1, <1>2, <1>3, <2>1, FailQuiet, RejectQuiet, ReleaseIsVerifying
<1>4. CASE IndexOK(c) /\ c.mode # "direct" /\ c.persist
  <2>1. Goto(p, "authority-state")
    BY <1>4 DEF VerifyReleaseIndex, IndexOK
  <2>2. Reviewed(c, "authority-state") /\ RightStep(c, "authority-state")
    BY <1>1, <1>4 DEF Reviewed, RightStep, Comparing, PastAuthority, PastPolicy, AtArtifacts
  <2>3. Local(c, "authority-state", result[p])
    BY <1>1, <1>2, <2>2, WayLocal, ReleaseIsVerifying DEF Comparing
  <2>4. SeenAt(c, "authority-state", result[p].trust) = {}
    BY <1>1, <1>2 DEF SeenAt, PastAuthority, PastPolicy, AtArtifacts
  <2> QED  BY <2>1, <2>3, <2>4, GotoQuiet
<1>5. CASE IndexOK(c) /\ ~(c.mode # "direct" /\ c.persist)
  <2>1. ReleasePolicy(p)
    BY <1>5 DEF VerifyReleaseIndex, IndexOK
  <2>2. PICK s, r : /\ Later(p, s, r) /\ s # "idle" /\ Local(c, s, r)
                    /\ SeenAt(c, s, r.trust) \subseteq {}
    BY <1>1, <1>2, <1>5, <2>1, ReleasePolicyFacts
  <2> QED  BY <2>2 DEF Quiet
<1> QED  BY <1>3, <1>4, <1>5

\* The refusals of an observation are the reasons of the state.
LEMMA ObserveReleaseFacts ==
    ASSUME NEW p \in Procs, NEW o, NEW next, ObserveRelease(p, o, next)
    PROVE  \E evaluation :
             /\ Observe(o, evaluation)
             /\ \/ acceptedStateEvaluation(evaluation) /\ next
                \/ evaluation \in StateReasons /\ Reject(p, evaluation)
BY DEF ObserveRelease, acceptedStateEvaluation, StateReasons, AcceptedEvaluations

LEMMA RefusedWatched ==
    ASSUME Inv, NEW p \in Procs, NEW o, NEW evaluation \in StateReasons, Observe(o, evaluation),
           Earns(Command(p), o), Reject(p, evaluation)
    PROVE  Watched(p)
<1>1. PICK r : Later(p, "done", r) /\ r.trust = "rejected" /\ r.reason = evaluation
  BY RejectFacts DEF Inv
<1>2. Local(Command(p), "done", r) /\ SeenAt(Command(p), "done", r.trust) = {}
  BY <1>1, ErrorLocal
<1> QED  BY <1>1, <1>2 DEF Watched

LEMMA ObserveAuthorityStateWatched ==
    ASSUME Inv, NEW p \in Procs, ObserveAuthorityState(p)
    PROVE  Watched(p)
<1> DEFINE c == Command(p)
           o == releaseAuthorityObservation(c)
<1>1. pc[p] = "authority-state" /\ Local(c, pc[p], result[p])
  BY DEF ObserveAuthorityState, Inv
<1>2. c.op = "verify-release-index" /\ c.persist /\ c.mode # "direct" /\ IndexOK(c)
  BY <1>1 DEF Local, RightStep, Reviewed
<1>3. result[p].trust # "accepted"
  BY <1>1, Unaccepted DEF Comparing
<1>4. o \in Observations(c) /\ o.store \notin {"release-policy", "release-index"}
  BY <1>2 DEF Observations, releaseAuthorityObservation
<1>5. Earns(c, o)
  BY <1>2, <1>4, ReleaseIsVerifying DEF Earns
<1>6. PICK evaluation : /\ Observe(o, evaluation)
                        /\ \/ acceptedStateEvaluation(evaluation) /\ ReleasePolicy(p)
                           \/ evaluation \in StateReasons /\ Reject(p, evaluation)
  BY ObserveReleaseFacts DEF ObserveAuthorityState
<1>7. CASE acceptedStateEvaluation(evaluation) /\ ReleasePolicy(p)
  <2>1. PICK s, r : /\ Later(p, s, r) /\ s # "idle" /\ Local(c, s, r)
                    /\ SeenAt(c, s, r.trust) \subseteq {o}
    BY <1>2, <1>3, <1>7, ReleasePolicyFacts
  <2>2. SeenAt(c, s, r.trust) \subseteq Seen(p) \cup {o}
    BY <2>1
  <2> QED  BY <1>5, <1>6, <1>7, <2>1, <2>2 DEF Watched
<1>8. CASE evaluation \in StateReasons /\ Reject(p, evaluation)
  BY <1>5, <1>6, <1>8, RefusedWatched
<1> QED  BY <1>6, <1>7, <1>8

LEMMA ObserveReleasePolicyWatched ==
    ASSUME Inv, NEW p \in Procs, ObserveReleasePolicy(p)
    PROVE  Watched(p)
<1> DEFINE c == Command(p)
           o == releasePolicyObservation(c)
<1>1. pc[p] = "policy-state" /\ Local(c, pc[p], result[p]) /\ c.op = "verify-release-index"
  BY DEF ObserveReleasePolicy, Inv
<1>2. c.persist /\ IndexOK(c) /\ PolicyOK(c)
  BY <1>1 DEF Local, RightStep, Reviewed, PastAuthority
<1>3. result[p].trust # "accepted"
  BY <1>1, Unaccepted DEF Comparing
<1>4. o \in Observations(c) /\ o.store = "release-policy"
  BY <1>1 DEF Observations, releasePolicyObservation
<1>5. Earns(c, o)
  BY <1>1, <1>2, <1>4, ReleaseIsVerifying DEF Earns
<1>6. PICK evaluation : /\ Observe(o, evaluation)
                        /\ \/ acceptedStateEvaluation(evaluation) /\ Goto(p, "authorize")
                           \/ evaluation \in StateReasons /\ Reject(p, evaluation)
  BY ObserveReleaseFacts DEF ObserveReleasePolicy
<1>7. CASE acceptedStateEvaluation(evaluation) /\ Goto(p, "authorize")
  <2>1. Later(p, "authorize", result[p])
    BY <1>7, GotoFacts DEF Inv
  <2>2. Reviewed(c, "authorize") /\ RightStep(c, "authorize")
    BY <1>1, <1>2 DEF Reviewed, RightStep, Comparing, PastAuthority, PastPolicy, AtArtifacts
  <2>3. Local(c, "authorize", result[p])
    BY <1>1, <1>3, <2>2, WayLocal, ReleaseIsVerifying DEF Comparing
  <2>4. SeenAt(c, "authorize", result[p].trust) \subseteq Seen(p) \cup {o}
    BY <1>1, <1>3 DEF Seen, SeenAt, PastAuthority, PastPolicy, AtArtifacts
  <2> QED  BY <1>5, <1>6, <1>7, <2>1, <2>3, <2>4 DEF Watched
<1>8. CASE evaluation \in StateReasons /\ Reject(p, evaluation)
  BY <1>5, <1>6, <1>8, RefusedWatched
<1> QED  BY <1>6, <1>7, <1>8

LEMMA ObserveIndexStateWatched ==
    ASSUME Inv, NEW p \in Procs, ObserveIndexState(p)
    PROVE  Watched(p)
<1> DEFINE c == Command(p)
           o == releaseIndexObservation(c)
<1>1. pc[p] = "index-state" /\ Local(c, pc[p], result[p])
  BY DEF ObserveIndexState, Inv
<1>2. c.op = "verify-release-index" /\ c.persist /\ IndexOK(c) /\ PolicyOK(c) /\ Authorized(c)
  BY <1>1 DEF Local, RightStep, Reviewed, PastAuthority, PastPolicy, AtArtifacts
<1>3. result[p].trust # "accepted"
  BY <1>1, Unaccepted DEF Comparing
<1>4. o \in Observations(c)
  BY <1>2 DEF Observations
<1>5. Earns(c, o)
  BY <1>2, <1>4, ReleaseIsVerifying DEF Earns
<1>6. PICK evaluation : /\ Observe(o, evaluation)
                        /\ \/ acceptedStateEvaluation(evaluation) /\ Finish(p, Accepted(p))
                           \/ evaluation \in StateReasons /\ Reject(p, evaluation)
  BY ObserveReleaseFacts DEF ObserveIndexState
<1>7. CASE acceptedStateEvaluation(evaluation) /\ Finish(p, Accepted(p))
  <2>1. PICK r : Later(p, "done", r) /\ r.trust = "accepted"
    BY <1>7, AcceptedFacts, FinishFacts DEF Inv
  <2>2. Local(c, "done", r) /\ SeenAt(c, "done", r.trust) = Observations(c)
    BY <1>2, <2>1, AcceptedLocal, ReleaseIsVerifying
  <2>3. Observations(c) \subseteq Seen(p) \cup {o}
    BY <1>1, <1>2, <1>3 DEF Observations, Seen, SeenAt, PastAuthority, PastPolicy, AtArtifacts, Verifying
  <2> QED  BY <1>5, <1>6, <1>7, <2>1, <2>2, <2>3 DEF Watched
<1>8. CASE evaluation \in StateReasons /\ Reject(p, evaluation)
  BY <1>5, <1>6, <1>8, RefusedWatched
<1> QED  BY <1>6, <1>7, <1>8

LEMMA AuthorizeIndexQuiet ==
    ASSUME Inv, NEW p \in Procs, AuthorizeIndex(p)
    PROVE  Quiet(p)
<1> DEFINE c == Command(p)
<1>1. pc[p] = "authorize" /\ Local(c, pc[p], result[p])
  BY DEF AuthorizeIndex, Inv
<1>2. c.op = "verify-release-index" /\ IndexOK(c) /\ PolicyOK(c)
  BY <1>1 DEF Local, RightStep, Reviewed, PastAuthority, PastPolicy
<1>3. result[p].trust # "accepted"
  BY <1>1, Unaccepted DEF Comparing
<1>4. CASE Authorized(c)
  <2>1. Goto(p, "scan")
    BY <1>4 DEF AuthorizeIndex
  <2>2. Reviewed(c, "scan") /\ RightStep(c, "scan")
    BY <1>2, <1>4 DEF Reviewed, RightStep, Comparing, PastAuthority, PastPolicy, AtArtifacts
  <2>3. Local(c, "scan", result[p])
    BY <1>2, <1>3, <2>2, WayLocal, ReleaseIsVerifying DEF Comparing
  <2>4. SeenAt(c, "scan", result[p].trust) \subseteq Seen(p)
    BY <1>1, <1>2, <1>3 DEF Seen, SeenAt, PastAuthority, PastPolicy, AtArtifacts
  <2> QED  BY <2>1, <2>3, <2>4, GotoQuiet
<1>5. CASE ~Authorized(c)
  <2>1. Reject(p, "signer")
    BY <1>5 DEF AuthorizeIndex
  <2> QED  BY <1>2, <1>5, <2>1, RejectQuiet, ReleaseIsVerifying
<1> QED  BY <1>4, <1>5

-----------------------------------------------------------------------------
(* The artifacts. *)

LEMMA ArtifactsFacts ==
    ASSUME Inv, NEW p \in Procs, pc[p] \in {"scan", "scanning", "names"}
    PROVE  /\ result[p].trust # "accepted"
           /\ Command(p).op \in {"verify-release-index", "sign-release-index"}
           /\ Command(p).op = "verify-release-index" =>
                IndexOK(Command(p)) /\ PolicyOK(Command(p)) /\ Authorized(Command(p))
<1>1. Local(Command(p), pc[p], result[p])
  BY DEF Inv
<1>2. result[p].trust # "accepted"
  BY Unaccepted DEF Comparing
<1>3. pc[p] \in AtArtifacts /\ pc[p] \in PastAuthority
  BY DEF AtArtifacts, PastPolicy, PastAuthority
<1> QED  BY <1>1, <1>2, <1>3 DEF Local, RightStep, Reviewed

LEMMA ArtifactsGoto ==
    ASSUME Inv, NEW p \in Procs, pc[p] \in {"scan", "scanning", "names"},
           NEW s \in {"scan", "scanning", "names"}, Goto(p, s)
    PROVE  Quiet(p)
<1> DEFINE c == Command(p)
<1>1. RightStep(c, s)
  BY ArtifactsFacts DEF RightStep, Comparing
<1>2. CASE c.op = "verify-release-index"
  <2>1. Reviewed(c, s)
    BY <1>2, ArtifactsFacts DEF Reviewed
  <2>2. Local(c, s, result[p])
    BY <1>1, <1>2, <2>1, ArtifactsFacts, WayLocal, ReleaseIsVerifying DEF Comparing
  <2>3. SeenAt(c, s, result[p].trust) \subseteq Seen(p)
    BY <1>2, ArtifactsFacts DEF Seen, SeenAt, PastAuthority, PastPolicy, AtArtifacts
  <2> QED  BY <2>2, <2>3, GotoQuiet
<1>3. CASE c.op = "sign-release-index"
  <2>1. c.op \notin Verifying
    BY <1>3 DEF Verifying
  <2> QED  BY <1>1, <2>1, GotoFacts, IssuerQuiet DEF Inv
<1> QED  BY <1>2, <1>3, ArtifactsFacts

LEMMA ArtifactsFail ==
    ASSUME Inv, NEW p \in Procs, pc[p] \in {"scan", "scanning", "names"}, NEW reason, Fail(p, reason),
           reason = "artifacts" \/ Command(p).op = "sign-release-index"
    PROVE  Quiet(p)
<1>1. Command(p).op \in Verifying => reason \in StateReasons \cup {"artifacts"}
  BY DEF Verifying
<1> QED  BY <1>1, ArtifactsFacts, FailQuiet

LEMMA ScanListQuiet ==
    ASSUME Inv, NEW p \in Procs, ScanList(p)
    PROVE  Quiet(p)
<1>1. pc[p] = "scan" /\ (Goto(p, "scanning") \/ Fail(p, "artifacts"))
  BY DEF ScanList
<1> QED  BY <1>1, ArtifactsGoto, ArtifactsFail

LEMMA ScanFileQuiet ==
    ASSUME Inv, NEW p \in Procs, ScanFile(p)
    PROVE  Quiet(p) \/ UNCHANGED <<pc, result>>
<1>1. pc[p] = "scanning" /\ (UNCHANGED <<pc, result>> \/ Fail(p, "artifacts"))
  BY DEF ScanFile
<1> QED  BY <1>1, ArtifactsFail

LEMMA ScanEndQuiet ==
    ASSUME Inv, NEW p \in Procs, ScanEnd(p)
    PROVE  Quiet(p)
<1>1. pc[p] = "scanning" /\ (Goto(p, "scan") \/ Goto(p, "names") \/ Fail(p, "artifacts"))
  BY DEF ScanEnd
<1> QED  BY <1>1, ArtifactsGoto, ArtifactsFail

LEMMA InspectedArtifactsQuiet ==
    ASSUME Inv, NEW p \in Procs, InspectedArtifacts(p)
    PROVE  Quiet(p)
<1> DEFINE c == Command(p)
<1>1. pc[p] = "names"
  BY DEF InspectedArtifacts
<1>2. \/ Fail(p, "artifacts")
      \/ /\ c.op = "sign-release-index"
         /\ Fail(p, "build") \/ \E made, about :
              Finish(p, [result[p] EXCEPT !.status = "ok", !.about = about, !.made = made])
      \/ c.op # "sign-release-index" /\ c.persist /\ Goto(p, "index-state")
      \/ c.op # "sign-release-index" /\ ~c.persist
         /\ \E about : Finish(p, [Accepted(p) EXCEPT !.about = about])
  BY DEF InspectedArtifacts
<1>3. CASE Fail(p, "artifacts") \/ (c.op = "sign-release-index" /\ Fail(p, "build"))
  BY <1>1, <1>3, ArtifactsFail
<1>4. ASSUME c.op = "sign-release-index", NEW made, NEW about,
             Finish(p, [result[p] EXCEPT !.status = "ok", !.about = about, !.made = made])
      PROVE  Quiet(p)
  <2> DEFINE o == [result[p] EXCEPT !.status = "ok", !.about = about, !.made = made]
  <2>1. DOMAIN o = Fields /\ o.trust = result[p].trust
    BY DEF Inv, Types, Fields
  <2>2. Finish(p, o) /\ c.op \notin Verifying
    BY <1>4 DEF Verifying
  <2> HIDE DEF o
  <2> QED  BY <2>1, <2>2, FinishFacts, IssuerQuiet, DoneIsRight
<1>5. CASE c.op # "sign-release-index" /\ c.persist /\ Goto(p, "index-state")
  <2>1. /\ c.op = "verify-release-index" /\ result[p].trust # "accepted"
        /\ IndexOK(c) /\ PolicyOK(c) /\ Authorized(c)
    BY <1>1, <1>5, ArtifactsFacts
  <2>2. Reviewed(c, "index-state") /\ RightStep(c, "index-state")
    BY <1>5, <2>1 DEF Reviewed, RightStep, Comparing
  <2>3. Local(c, "index-state", result[p])
    BY <2>1, <2>2, WayLocal, ReleaseIsVerifying DEF Comparing
  <2>4. SeenAt(c, "index-state", result[p].trust) \subseteq Seen(p)
    BY <1>1, <2>1 DEF Seen, SeenAt, PastAuthority, PastPolicy, AtArtifacts
  <2> QED  BY <1>5, <2>3, <2>4, GotoQuiet
<1>6. ASSUME c.op # "sign-release-index", ~c.persist, NEW about,
             Finish(p, [Accepted(p) EXCEPT !.about = about])
      PROVE  Quiet(p)
  <2> DEFINE o == [Accepted(p) EXCEPT !.about = about]
  <2>1. DOMAIN o = Fields /\ o.trust = "accepted"
    <3>1. DOMAIN Accepted(p) = Fields /\ Accepted(p).trust = "accepted"
      BY AcceptedFacts DEF Inv
    <3> QED  BY <3>1 DEF Fields
  <2>2. Finish(p, o)
    BY <1>6
  <2> HIDE DEF o
  <2>3. PICK r : Later(p, "done", r) /\ r.trust = "accepted"
    BY <2>1, <2>2, FinishFacts
  <2>4. c.op = "verify-release-index" /\ DocumentsOK(c)
    BY <1>1, <1>6, ArtifactsFacts, ReleaseIsVerifying
  <2>5. Local(c, "done", r) /\ SeenAt(c, "done", r.trust) = {}
    BY <1>6, <2>3, <2>4, AcceptedLocal, ReleaseIsVerifying
  <2> QED  BY <2>3, <2>5 DEF Quiet
<1> QED  BY <1>2, <1>3, <1>4, <1>5, <1>6

-----------------------------------------------------------------------------
(* The whole. *)

LEMMA UnchangedKeepsInv ==
    ASSUME Inv, UNCHANGED <<script, pc, reg, after, result>>
    PROVE  Inv'
<1>1. Types' /\ Procs' = Procs /\ \A q : Command(q)' = Command(q) /\ Seen(q)' = Seen(q)
  BY DEF Inv, Types, Procs, Command, Seen
<1>2. Earned' /\ OneRecord' /\ Covered' /\ Chained' /\ InOrder'
  BY <1>1 DEF Inv, Earned, OneRecord, Covered, Chained, InOrder
<1> QED  BY <1>1, <1>2 DEF Inv

LEMMA BeginKeepsInv ==
    ASSUME Inv, NEW p \in Procs, Begin(p)
    PROVE  Inv'
<1>1. /\ pc[p] = "idle" /\ pc' = [pc EXCEPT ![p] = "start"] /\ result' = result
      /\ script' = script /\ reg' = reg
      /\ after' = [after EXCEPT ![p] = {q \in Procs : pc[q] = "done" /\ result[q].trust = "accepted"}]
  BY DEF Begin, Goto
<1>2. /\ Procs' = Procs /\ \A q : Command(q)' = Command(q)
      /\ DOMAIN pc = Procs /\ DOMAIN after = Procs
  BY <1>1 DEF Procs, Command, Inv, Types
<1>3. /\ pc'[p] = "start"
      /\ \A q \in Procs : q # p => pc'[q] = pc[q] /\ after'[q] = after[q]
      /\ after'[p] = {q \in Procs : pc[q] = "done" /\ result[q].trust = "accepted"}
  BY <1>1, <1>2
<1>4. result[p].trust # "accepted"
  BY <1>1, Unaccepted DEF Comparing
<1>5. Types'
  BY <1>1, <1>2 DEF Inv, Types
<1>6. Local(Command(p), "start", result[p])
  BY <1>4 DEF Local, Reviewed, RightStep, Outcome, Comparing, PastAuthority, PastPolicy, AtArtifacts
<1>7. \A q \in Procs : Local(Command(q)', pc'[q], result'[q])
  BY <1>1, <1>2, <1>3, <1>6 DEF Inv
<1>8. /\ \A q \in Procs : q # p => Seen(q)' = Seen(q)
      /\ Seen(p)' = {} /\ Seen(p) = {}
  <2>1. \A q \in Procs : Seen(q)' = SeenAt(Command(q), pc'[q], result[q].trust)
    BY <1>1, <1>2 DEF Seen
  <2>2. SeenAt(Command(p), "start", result[p].trust) = {} /\ SeenAt(Command(p), "idle", result[p].trust) = {}
    BY <1>4 DEF SeenAt, PastAuthority, PastPolicy, AtArtifacts
  <2> QED  BY <1>1, <1>3, <2>1, <2>2 DEF Seen
<1>9. Earned'
  BY <1>1, <1>2, <1>3 DEF Inv, Earned
<1>10. OneRecord' /\ Covered' /\ Chained'
  BY <1>1, <1>2, <1>8 DEF Inv, OneRecord, Covered, Chained
<1>11. InOrder'
  <2> SUFFICES ASSUME NEW q \in Procs, NEW t \in after'[q]
               PROVE  /\ t \in Procs /\ pc'[t] = "done"
                      /\ \A a \in Seen(t)', b \in Seen(q)' : Same(a, b) => Ext(a, b)
    BY <1>2 DEF InOrder
  <2>1. CASE q = p
    BY <2>1, <1>1, <1>3, <1>8
  <2>2. CASE q # p
    <3>1. /\ t \in Procs /\ pc[t] = "done"
          /\ \A a \in Seen(t), b \in Seen(q) : Same(a, b) => Ext(a, b)
      BY <2>2, <1>3 DEF Inv, InOrder
    <3>2. t # p
      BY <3>1, <1>1
    <3> QED  BY <2>2, <3>1, <3>2, <1>3, <1>8
  <2> QED  BY <2>1, <2>2
<1> QED  BY <1>2, <1>5, <1>7, <1>9, <1>10, <1>11 DEF Inv

LEMMA InitInv == Init => Inv
<1> SUFFICES ASSUME Init PROVE Inv
  OBVIOUS
<1>1. Types
  BY DEF Init, Types, Running, Fields
<1>2. \A p \in Procs : pc[p] = "idle" /\ result[p].trust = "none"
  BY DEF Init, Running
<1>3. \A c : \A r : r.trust = "none" => Local(c, "idle", r) /\ SeenAt(c, "idle", "none") = {}
  BY DEF Local, Reviewed, RightStep, Outcome, SeenAt, Comparing, PastAuthority, PastPolicy, AtArtifacts
<1>4. \A p \in Procs : Local(Command(p), pc[p], result[p]) /\ Seen(p) = {} /\ after[p] = {}
  BY <1>2, <1>3 DEF Seen, Init
<1>5. reg = {}
  BY DEF Init
<1> QED  BY <1>1, <1>4, <1>5 DEF Inv, Earned, OneRecord, Covered, Chained, InOrder

LEMMA StepInv ==
    ASSUME Inv, NEW p \in Procs, Step(p)
    PROVE  Inv'
<1>1. CASE Begin(p)
  BY <1>1, BeginKeepsInv
<1>2. ASSUME ~Begin(p)
      PROVE  AtWork(p) /\ script' = script /\ after' = after
  BY <1>2 DEF Step, AtWork, Kill, VerifyAttestation, ObservePolicyState, VerifySigner, ResolveSource, ListTree,
       VisitFile, EndWalk, ReadPlan, ReadDerivedInput, ProbeFreshnessRunner, Attest, BuildBundle,
       VerifyReleaseIndex, ObserveAuthorityState, ObserveReleasePolicy, AuthorizeIndex, ScanList, ScanFile,
       ScanEnd, InspectedArtifacts, ObserveIndexState, SignReleaseIndex, Issue
<1>3. CASE ObservePolicyState(p) \/ ObserveAuthorityState(p) \/ ObserveReleasePolicy(p) \/ ObserveIndexState(p)
  <2>1. Watched(p)
    BY <1>3, ObservePolicyStateWatched, ObserveAuthorityStateWatched, ObserveReleasePolicyWatched,
       ObserveIndexStateWatched
  <2> QED  BY <1>1, <1>2, <2>1, WatchedKeepsInv
<1>4. CASE Kill(p) \/ VerifyAttestation(p) \/ VerifySigner(p) \/ Attest(p) \/ BuildBundle(p)
           \/ VerifyReleaseIndex(p) \/ AuthorizeIndex(p) \/ ScanList(p) \/ ScanEnd(p)
           \/ InspectedArtifacts(p) \/ SignReleaseIndex(p) \/ Issue(p)
  <2>1. Quiet(p)
    BY <1>4, KillQuiet, VerifyAttestationQuiet, VerifySignerQuiet, AttestQuiet, BuildBundleQuiet,
       VerifyReleaseIndexQuiet, AuthorizeIndexQuiet, ScanListQuiet, ScanEndQuiet, InspectedArtifactsQuiet,
       SignReleaseIndexQuiet, IssueQuiet
  <2>2. reg' = reg
    BY <1>4 DEF Kill, VerifyAttestation, VerifySigner, Attest, BuildBundle, VerifyReleaseIndex, AuthorizeIndex,
       ScanList, ScanEnd, InspectedArtifacts, SignReleaseIndex, Issue
  <2> QED  BY <1>1, <1>2, <2>1, <2>2, QuietKeepsInv
<1>5. CASE ResolveSource(p) \/ ListTree(p) \/ EndWalk(p) \/ ReadPlan(p) \/ ReadDerivedInput(p)
           \/ ProbeFreshnessRunner(p)
  <2>1. Quiet(p)
    BY <1>5, ResolveSourceCompares, ListTreeCompares, EndWalkCompares, ReadPlanCompares,
       ReadDerivedInputCompares, ProbeCompares, ComparesQuiet
  <2>2. reg' = reg
    BY <1>5 DEF ResolveSource, ListTree, EndWalk, ReadPlan, ReadDerivedInput, ProbeFreshnessRunner
  <2> QED  BY <1>1, <1>2, <2>1, <2>2, QuietKeepsInv
<1>6. CASE VisitFile(p) \/ ScanFile(p)
  <2>1. Quiet(p) \/ UNCHANGED <<pc, result>>
    BY <1>6, VisitFileCompares, ComparesQuiet, ScanFileQuiet
  <2>2. reg' = reg
    BY <1>6 DEF VisitFile, ScanFile
  <2> QED  BY <1>1, <1>2, <2>1, <2>2, QuietKeepsInv, UnchangedKeepsInv
<1> QED  BY <1>1, <1>3, <1>4, <1>5, <1>6 DEF Step

LEMMA NextInv ==
    ASSUME Inv, [Next]_vars
    PROVE  Inv'
<1>1. CASE EditTree
  BY <1>1, UnchangedKeepsInv DEF EditTree
<1>2. CASE UNCHANGED vars
  BY <1>2, UnchangedKeepsInv DEF vars
<1> QED  BY <1>1, <1>2, StepInv DEF Next

LEMMA InvGivesOrder ==
    ASSUME Inv
    PROVE  AcceptedInOrder
<1> SUFFICES ASSUME NEW p \in Procs, NEW q \in Procs, AcceptedWithState(p), AcceptedWithState(q),
                    NEW a \in Observations(Command(p)), NEW b \in Observations(Command(q)),
                    a.store = b.store, a.key = b.key,
                    NEW x \in Generations(a), NEW y \in Generations(b), x.of = y.of
             PROVE  /\ x.at = y.at => x.is = y.is
                    /\ p \in after[q] => y.at >= x.at
  BY DEF AcceptedInOrder
<1>1. a \in Seen(p) /\ b \in Seen(q) /\ Same(a, b)
  BY DEF AcceptedWithState, Seen, SeenAt, Verifying, Same
<1>2. Numbered(a) /\ Numbered(b)
  BY <1>1, SeenNumbered
<1>3. x.at \in Nat /\ y.at \in Nat
  BY <1>2 DEF Numbered
<1>4. Ext(a, b) \/ Ext(b, a)
  BY <1>1 DEF Inv, Chained
<1>5. x.at = y.at => x.is = y.is
  BY <1>4 DEF Ext
<1>6. p \in after[q] => Ext(a, b)
  BY <1>1 DEF Inv, InOrder
<1>7. p \in after[q] => x.at <= y.at
  BY <1>6 DEF Ext
<1> QED  BY <1>3, <1>5, <1>7

\* Two commands that accepted under the durable state never accepted different
\* documents of one generation, and one that began after another had accepted
\* never accepted an older one, whoever was killed and whatever store failed.
THEOREM AcceptanceInOrder == Spec => []AcceptedInOrder
<1>1. Inv /\ [Next]_vars => Inv'
  BY NextInv
<1>2. Inv => AcceptedInOrder
  BY InvGivesOrder
<1> QED  BY <1>1, <1>2, InitInv, PTL DEF Spec

Layouts == {bundlePaths(TRUE), bundlePaths(FALSE), bundlePathsV2}

\* The members of a bundle laid out along paths are the files it was made of.
LEMMA LayoutFacts ==
    ASSUME NEW paths \in Layouts
    PROVE  /\ \A i, j \in DOMAIN paths : paths[i] = paths[j] => i = j
           /\ {"attestation", "manifest", "verification", "signature", "key"} \subseteq Range(paths)
           /\ "sbom" \in Range(paths) <=> paths # bundlePaths(FALSE)
           /\ "provenance" \in Range(paths) <=> paths = bundlePathsV2
<1>1. CASE paths = bundlePaths(TRUE)
  <2>1. paths = <<"attestation", "manifest", "verification", "sbom", "signature", "key">> /\ DOMAIN paths = 1..6
    BY <1>1 DEF bundlePaths
  <2>2. Range(paths) = {"attestation", "manifest", "verification", "sbom", "signature", "key"}
    BY <2>1 DEF Range
  <2>3. paths # bundlePaths(FALSE) /\ paths # bundlePathsV2
    BY <2>1 DEF bundlePaths, bundlePathsV2
  <2>4. /\ paths[1] = "attestation" /\ paths[2] = "manifest" /\ paths[3] = "verification" /\ paths[4] = "sbom"
        /\ paths[5] = "signature" /\ paths[6] = "key"
    BY <2>1
  <2>5. \A i, j \in 1..6 : paths[i] = paths[j] => i = j
    <3> SUFFICES ASSUME NEW i \in 1..6, NEW j \in 1..6, paths[i] = paths[j] PROVE i = j
      OBVIOUS
    <3>1. i = 1 \/ i = 2 \/ i = 3 \/ i = 4 \/ i = 5 \/ i = 6
      OBVIOUS
    <3>2. j = 1 \/ j = 2 \/ j = 3 \/ j = 4 \/ j = 5 \/ j = 6
      OBVIOUS
    <3> QED  BY <2>4, <3>1, <3>2
  <2>6. "provenance" \notin Range(paths) /\ "sbom" \in Range(paths)
    BY <2>2
  <2> QED  BY <2>1, <2>2, <2>3, <2>5, <2>6
<1>2. CASE paths = bundlePaths(FALSE)
  <2>1. paths = <<"attestation", "manifest", "verification", "signature", "key">> /\ DOMAIN paths = 1..5
    BY <1>2 DEF bundlePaths
  <2>2. Range(paths) = {"attestation", "manifest", "verification", "signature", "key"}
    BY <2>1 DEF Range
  <2>3. paths # bundlePathsV2
    BY <2>1 DEF bundlePathsV2
  <2>4. /\ paths[1] = "attestation" /\ paths[2] = "manifest" /\ paths[3] = "verification" /\ paths[4] = "signature"
        /\ paths[5] = "key"
    BY <2>1
  <2>5. \A i, j \in 1..5 : paths[i] = paths[j] => i = j
    <3> SUFFICES ASSUME NEW i \in 1..5, NEW j \in 1..5, paths[i] = paths[j] PROVE i = j
      OBVIOUS
    <3>1. i = 1 \/ i = 2 \/ i = 3 \/ i = 4 \/ i = 5
      OBVIOUS
    <3>2. j = 1 \/ j = 2 \/ j = 3 \/ j = 4 \/ j = 5
      OBVIOUS
    <3> QED  BY <2>4, <3>1, <3>2
  <2>6. "provenance" \notin Range(paths) /\ "sbom" \notin Range(paths)
    BY <2>2
  <2> QED  BY <1>2, <2>1, <2>2, <2>3, <2>5, <2>6
<1>3. CASE paths = bundlePathsV2
  <2>1. /\ paths = <<"attestation", "manifest", "verification", "sbom", "provenance", "signature", "key">>
        /\ DOMAIN paths = 1..7
    BY <1>3 DEF bundlePathsV2
  <2>2. Range(paths) = {"attestation", "manifest", "verification", "sbom", "provenance", "signature", "key"}
    BY <2>1 DEF Range
  <2>3. paths # bundlePaths(FALSE)
    BY <2>1 DEF bundlePaths
  <2>4. /\ paths[1] = "attestation" /\ paths[2] = "manifest" /\ paths[3] = "verification" /\ paths[4] = "sbom"
        /\ paths[5] = "provenance" /\ paths[6] = "signature" /\ paths[7] = "key"
    BY <2>1
  <2>5. \A i, j \in 1..7 : paths[i] = paths[j] => i = j
    <3> SUFFICES ASSUME NEW i \in 1..7, NEW j \in 1..7, paths[i] = paths[j] PROVE i = j
      OBVIOUS
    <3>1. i = 1 \/ i = 2 \/ i = 3 \/ i = 4 \/ i = 5 \/ i = 6 \/ i = 7
      OBVIOUS
    <3>2. j = 1 \/ j = 2 \/ j = 3 \/ j = 4 \/ j = 5 \/ j = 6 \/ j = 7
      OBVIOUS
    <3> QED  BY <2>4, <3>1, <3>2
  <2>6. "provenance" \in Range(paths) /\ "sbom" \in Range(paths)
    BY <2>2
  <2> QED  BY <1>3, <2>1, <2>2, <2>3, <2>5, <2>6
<1> QED  BY <1>1, <1>2, <1>3 DEF Layouts

LEMMA BuiltMembers ==
    ASSUME NEW paths \in Layouts, NEW files, NEW b, b = buildCanonicalTarPaths(files, paths)
    PROVE  /\ Members(b) = Range(paths)
           /\ \A p \in Range(paths) : Member(b, p) = files[p]
<1>1. /\ DOMAIN b = DOMAIN paths
      /\ \A i \in DOMAIN b : b[i].path = paths[i] /\ b[i].data = files[paths[i]]
  BY DEF buildCanonicalTarPaths
<1>2. Members(b) = Range(paths)
  BY <1>1 DEF Members, Range
<1>3. ASSUME NEW p \in Range(paths)
      PROVE  Member(b, p) = files[p]
  <2>1. PICK i \in DOMAIN b : b[i].path = p
    BY <1>1 DEF Range
  <2> DEFINE j == CHOOSE k \in DOMAIN b : b[k].path = p
  <2>2. j \in DOMAIN b /\ b[j].path = p
    BY <2>1
  <2> HIDE DEF j
  <2>3. b[j].data = files[p]
    BY <1>1, <2>2
  <2> QED  BY <2>3 DEF Member, j
<1> QED  BY <1>2, <1>3

LEMMA MemberOf ==
    ASSUME NEW b, NEW p \in Members(b)
    PROVE  \E i \in DOMAIN b : b[i].path = p /\ Member(b, p) = b[i].data
<1> DEFINE j == CHOOSE k \in DOMAIN b : b[k].path = p
<1>1. j \in DOMAIN b /\ b[j].path = p
  BY DEF Members
<1>2. Member(b, p) = b[j].data
  BY DEF Member
<1> HIDE DEF j
<1> QED  BY <1>1, <1>2

\* A bundle made of the parts it should have been made of is canonical.
LEMMA BuiltIsCanonical ==
    ASSUME NEW paths \in Layouts, NEW files, NEW b, b = buildCanonicalTarPaths(files, paths)
    PROVE  parseCanonicalTarModel(b)
<1>1. Members(b) = Range(paths) /\ \A p \in Range(paths) : Member(b, p) = files[p]
  BY BuiltMembers
<1> DEFINE hasSBOM == "sbom" \in Members(b)
           paths2 == IF "provenance" \in Members(b) THEN bundlePathsV2 ELSE bundlePaths(hasSBOM)
<1>2. paths2 = paths
  <2>1. /\ "sbom" \in Members(b) <=> paths # bundlePaths(FALSE)
        /\ "provenance" \in Members(b) <=> paths = bundlePathsV2
    BY <1>1, LayoutFacts
  <2>2. CASE paths = bundlePathsV2
    BY <2>1, <2>2
  <2>3. CASE paths = bundlePaths(FALSE) /\ paths # bundlePathsV2
    BY <2>1, <2>3 DEF bundlePaths
  <2>4. CASE paths = bundlePaths(TRUE) /\ paths # bundlePathsV2 /\ paths # bundlePaths(FALSE)
    BY <2>1, <2>4 DEF bundlePaths
  <2> QED  BY <2>2, <2>3, <2>4 DEF Layouts
<1>3. b = buildCanonicalTarPaths([p \in Members(b) |-> Member(b, p)], paths)
  <2>1. \A i \in DOMAIN paths : paths[i] \in Range(paths)
    BY DEF Range
  <2>2. \A i \in DOMAIN paths : [p \in Members(b) |-> Member(b, p)][paths[i]] = files[paths[i]]
    BY <1>1, <2>1
  <2> QED  BY <2>2 DEF buildCanonicalTarPaths
<1> QED  BY <1>1, <1>2, <1>3 DEF parseCanonicalTarModel

LEMMA CanonicalLayout ==
    ASSUME NEW b, parseCanonicalTarModel(b)
    PROVE  \E paths \in Layouts :
             /\ Members(b) = Range(paths)
             /\ b = buildCanonicalTarPaths([p \in Members(b) |-> Member(b, p)], paths)
             /\ paths = IF "provenance" \in Members(b) THEN bundlePathsV2 ELSE bundlePaths("sbom" \in Members(b))
<1> DEFINE paths == IF "provenance" \in Members(b) THEN bundlePathsV2 ELSE bundlePaths("sbom" \in Members(b))
<1>1. paths \in Layouts
  BY DEF Layouts, bundlePaths
<1> QED  BY <1>1 DEF parseCanonicalTarModel

\* Whatever is built is verified: without a derived SBOM, and with one.
LEMMA BuiltVerifies ==
    ASSUME NEW result_, NEW sbom, NEW key, NEW b \in BuildWithSPDX(result_, sbom, key),
           AtMostOne(sbom), result_.wantsSBOM \in BOOLEAN
    PROVE  Verify(b)
<1> DEFINE manifest == expectedManifest(result_, sbom, key)
           statement == expectedStatement(result_, sbom, manifest)
           hasSBOM == sbom # {}
           paths == bundlePaths(hasSBOM)
           envelope == Signed("statement", key, statement)
           files == [p \in Range(paths) |->
                    CASE p = "attestation" -> statement
                      [] p = "manifest" -> manifest
                      [] p = "verification" -> result_
                      [] p = "sbom" -> CHOOSE s \in sbom : TRUE
                      [] p = "signature" -> envelope
                      [] p = "key" -> [key |-> key]]
<1>1. /\ result_.sealed /\ privacyAccepts(result_) /\ result_.wantsSBOM = hasSBOM
      /\ \A s \in sbom : s.form = "supplied" /\ privacyAccepts(s)
      /\ parsePublicKey(key)
      /\ b = buildCanonicalTarPaths(files, paths)
  BY DEF BuildWithSPDX
<1>2. envelope.type = "statement" /\ envelope.keyid = key /\ envelope.signer = key /\ envelope.payload = statement
  BY DEF Signed
<1> HIDE DEF manifest, statement, envelope
<1>3. paths \in Layouts /\ (paths = bundlePaths(FALSE) <=> ~hasSBOM) /\ paths # bundlePathsV2
  BY DEF Layouts, bundlePaths, bundlePathsV2
<1> HIDE DEF paths
<1>4. /\ {"attestation", "manifest", "verification", "signature", "key"} \subseteq Range(paths)
      /\ "sbom" \in Range(paths) <=> hasSBOM
      /\ "provenance" \notin Range(paths)
  BY <1>3, LayoutFacts
<1>5. /\ files["attestation"] = statement /\ files["manifest"] = manifest /\ files["verification"] = result_
      /\ files["signature"] = envelope /\ files["key"] = [key |-> key]
      /\ hasSBOM => files["sbom"] = CHOOSE s \in sbom : TRUE
  BY <1>4
<1> HIDE DEF files
<1>6. Members(b) = Range(paths) /\ parseCanonicalTarModel(b) /\ \A p \in Range(paths) : Member(b, p) = files[p]
  BY <1>1, <1>3, BuiltMembers, BuiltIsCanonical
<1>7. /\ Member(b, "attestation") = statement /\ Member(b, "manifest") = manifest
      /\ Member(b, "verification") = result_ /\ Member(b, "signature") = envelope
      /\ Signer(b) = key
      /\ hasSBOM => Member(b, "sbom") = CHOOSE s \in sbom : TRUE
      /\ "sbom" \in Members(b) <=> hasSBOM
      /\ "provenance" \notin Members(b)
  BY <1>4, <1>5, <1>6 DEF Signer
<1>8. sbom = IF "sbom" \in Members(b) THEN {Member(b, "sbom")} ELSE {}
  BY <1>7 DEF AtMostOne
<1>9. manifest = expectedManifest(result_, sbom, key) /\ statement = expectedStatement(result_, sbom, manifest)
  BY DEF manifest, statement
<1>10. authentic(envelope, "statement", key)
  BY <1>1, <1>2 DEF authentic
<1> HIDE DEF hasSBOM
<1>11. result_.wantsSBOM = ("sbom" \in Members(b))
  BY <1>1, <1>7 DEF hasSBOM
<1>12. "sbom" \in Members(b) => Member(b, "sbom") \in sbom
  BY <1>8
<1> QED  BY <1>1, <1>2, <1>6, <1>7, <1>8, <1>9, <1>10, <1>11, <1>12 DEF Verify

LEMMA BuiltDerivedVerifies ==
    ASSUME NEW result_, NEW sbom, NEW provenance, NEW key,
           NEW b \in BuildWithDerivedSPDX(result_, sbom, provenance, key), result_.wantsSBOM \in BOOLEAN
    PROVE  Verify(b)
<1> DEFINE manifest == expectedManifestV2(result_, sbom, provenance, key)
           statement == expectedStatementV2(result_, sbom, provenance, manifest)
           paths == bundlePathsV2
           envelope == Signed("statement", key, statement)
           files == [p \in Range(paths) |->
                    CASE p = "attestation" -> statement
                      [] p = "manifest" -> manifest
                      [] p = "verification" -> result_
                      [] p = "sbom" -> sbom
                      [] p = "provenance" -> provenance
                      [] p = "signature" -> envelope
                      [] p = "key" -> [key |-> key]]
<1>1. /\ result_.sealed /\ privacyAccepts(result_) /\ result_.wantsSBOM
      /\ ValidateDerivedPair(sbom, provenance) /\ privacyAccepts(sbom) /\ SubjectMatches(result_, provenance)
      /\ parsePublicKey(key)
      /\ b = buildCanonicalTarPaths(files, paths)
  BY DEF BuildWithDerivedSPDX
<1>2. envelope.type = "statement" /\ envelope.keyid = key /\ envelope.signer = key /\ envelope.payload = statement
  BY DEF Signed
<1> HIDE DEF manifest, statement, envelope
<1>3. paths \in Layouts /\ paths = bundlePathsV2 /\ paths # bundlePaths(FALSE)
  BY DEF Layouts, bundlePaths, bundlePathsV2
<1> HIDE DEF paths
<1>4. {"attestation", "manifest", "verification", "signature", "key", "sbom", "provenance"} \subseteq Range(paths)
  BY <1>3, LayoutFacts
<1>5. /\ files["attestation"] = statement /\ files["manifest"] = manifest /\ files["verification"] = result_
      /\ files["signature"] = envelope /\ files["key"] = [key |-> key]
      /\ files["sbom"] = sbom /\ files["provenance"] = provenance
  BY <1>4
<1> HIDE DEF files
<1>6. Members(b) = Range(paths) /\ parseCanonicalTarModel(b) /\ \A p \in Range(paths) : Member(b, p) = files[p]
  BY <1>1, <1>3, BuiltMembers, BuiltIsCanonical
<1>7. /\ Member(b, "attestation") = statement /\ Member(b, "manifest") = manifest
      /\ Member(b, "verification") = result_ /\ Member(b, "signature") = envelope
      /\ Signer(b) = key
      /\ Member(b, "sbom") = sbom /\ Member(b, "provenance") = provenance
      /\ "sbom" \in Members(b) /\ "provenance" \in Members(b)
  BY <1>4, <1>5, <1>6 DEF Signer
<1>8. manifest = expectedManifestV2(result_, sbom, provenance, key) /\ statement = expectedStatementV2(result_, sbom, provenance, manifest)
  BY DEF manifest, statement
<1>9. authentic(envelope, "statement", key)
  BY <1>1, <1>2 DEF authentic
<1>10. result_.wantsSBOM = ("sbom" \in Members(b))
  BY <1>1, <1>7
<1> QED  BY <1>1, <1>2, <1>6, <1>7, <1>8, <1>9, <1>10 DEF Verify

\* A bundle is verified exactly when it is what building of its parts makes.
LEMMA VerifiedStands ==
    ASSUME NEW b, DecodedBundle(b)
    PROVE  Verify(b) <=> BundleStands(b)
<1> DEFINE result_ == Member(b, "verification")
           key == Signer(b)
           manifest == Member(b, "manifest")
           statement == Member(b, "attestation")
           envelope == Member(b, "signature")
           hasSBOM == "sbom" \in Members(b)
           derived == "provenance" \in Members(b)
           sbom == IF hasSBOM THEN {Member(b, "sbom")} ELSE {}
           provenance == Member(b, "provenance")
<1>1. "verification" \in Members(b) => result_.wantsSBOM \in BOOLEAN
  <2> HAVE "verification" \in Members(b)
  <2>1. PICK i \in DOMAIN b : b[i].path = "verification" /\ Member(b, "verification") = b[i].data
    BY MemberOf
  <2> QED  BY <2>1 DEF DecodedBundle
<1>2. "signature" \in Members(b) => envelope = [type |-> envelope.type, keyid |-> envelope.keyid,
                                                signer |-> envelope.signer, payload |-> envelope.payload]
  <2> HAVE "signature" \in Members(b)
  <2>1. PICK i \in DOMAIN b : b[i].path = "signature" /\ Member(b, "signature") = b[i].data
    BY MemberOf
  <2> QED  BY <2>1 DEF DecodedBundle
<1>3. "key" \in Members(b) => Member(b, "key") = [key |-> key]
  <2> HAVE "key" \in Members(b)
  <2>1. PICK i \in DOMAIN b : b[i].path = "key" /\ Member(b, "key") = b[i].data
    BY MemberOf
  <2> QED  BY <2>1 DEF DecodedBundle, Signer
<1>4. ASSUME BundleStands(b)
      PROVE  Verify(b)
  <2>1. "verification" \in Members(b)
    BY <1>4 DEF BundleStands
  <2>2. CASE derived
    <3>1. PICK s \in sbom : b \in BuildWithDerivedSPDX(result_, s, provenance, key)
      BY <1>4, <2>2 DEF BundleStands
    <3> QED  BY <1>1, <2>1, <3>1, BuiltDerivedVerifies
  <2>3. CASE ~derived
    <3>1. b \in BuildWithSPDX(result_, sbom, key)
      BY <1>4, <2>3 DEF BundleStands
    <3>2. AtMostOne(sbom)
      BY DEF AtMostOne
    <3> HIDE DEF sbom, key, result_
    <3> QED  BY <1>1, <2>1, <3>1, <3>2, BuiltVerifies
  <2> QED  BY <2>2, <2>3
<1>5. ASSUME Verify(b)
      PROVE  BundleStands(b)
  <2>1. /\ parseCanonicalTarModel(b)
        /\ result_.sealed /\ parsePublicKey(key)
        /\ derived => /\ manifest = expectedManifestV2(result_, Member(b, "sbom"), provenance, key)
                      /\ statement = expectedStatementV2(result_, Member(b, "sbom"), provenance, manifest)
        /\ ~derived => /\ manifest = expectedManifest(result_, sbom, key)
                       /\ statement = expectedStatement(result_, sbom, manifest)
        /\ authentic(envelope, "statement", key) /\ envelope.payload = statement
        /\ result_.wantsSBOM = hasSBOM
        /\ hasSBOM /\ ~derived => Member(b, "sbom").form = "supplied"
        /\ derived => ValidateDerivedPair(Member(b, "sbom"), provenance) /\ SubjectMatches(result_, provenance)
        /\ \A s \in sbom : privacyAccepts(s)
        /\ privacyAccepts(result_)
    BY <1>5 DEF Verify
  <2>2. PICK paths \in Layouts :
          /\ Members(b) = Range(paths)
          /\ b = buildCanonicalTarPaths([p \in Members(b) |-> Member(b, p)], paths)
          /\ paths = IF derived THEN bundlePathsV2 ELSE bundlePaths(hasSBOM)
    BY <2>1, CanonicalLayout
  <2>3. {"attestation", "manifest", "verification", "signature", "key"} \subseteq Members(b)
    BY <2>2, LayoutFacts
  <2>4. envelope = Signed("statement", key, statement)
    BY <1>2, <2>1, <2>3 DEF Signed, authentic
  <2>5. Member(b, "key") = [key |-> key]
    BY <1>3, <2>3
  <2>6. CASE derived
    <3> DEFINE m == expectedManifestV2(result_, Member(b, "sbom"), provenance, key)
               st == expectedStatementV2(result_, Member(b, "sbom"), provenance, m)
               files == [p \in Range(bundlePathsV2) |->
                    CASE p = "attestation" -> st
                      [] p = "manifest" -> m
                      [] p = "verification" -> result_
                      [] p = "sbom" -> Member(b, "sbom")
                      [] p = "provenance" -> provenance
                      [] p = "signature" -> Signed("statement", key, st)
                      [] p = "key" -> [key |-> key]]
    <3>1. paths = bundlePathsV2 /\ paths # bundlePaths(FALSE)
      BY <2>2, <2>6 DEF bundlePaths, bundlePathsV2
    <3>2. hasSBOM
      BY <2>2, <3>1, LayoutFacts
    <3>3. Range(paths) = {"attestation", "manifest", "verification", "sbom", "provenance", "signature", "key"}
      BY <3>1 DEF bundlePathsV2, Range
    <3>4. manifest = m /\ statement = st
      BY <2>1, <2>6
    <3>5. \A p \in Range(paths) : files[p] = Member(b, p)
      <4> HIDE DEF m, st
      <4> QED  BY <2>4, <2>5, <3>1, <3>3, <3>4
    <3> HIDE DEF files
    <3>6. b = buildCanonicalTarPaths(files, bundlePathsV2)
      <4>1. \A i \in DOMAIN paths : paths[i] \in Range(paths)
        BY DEF Range
      <4> DEFINE g == [p \in Members(b) |-> Member(b, p)]
      <4>2. \A i \in DOMAIN paths : g[paths[i]] = files[paths[i]]
        BY <2>2, <3>5, <4>1
      <4>3. b = buildCanonicalTarPaths(g, paths)
        BY <2>2
      <4> HIDE DEF g
      <4>4. b = buildCanonicalTarPaths(files, paths)
        BY <4>2, <4>3 DEF buildCanonicalTarPaths
      <4> QED  BY <3>1, <4>4
    <3>7. b \in BuildWithDerivedSPDX(result_, Member(b, "sbom"), provenance, key)
      <4>1. result_.wantsSBOM /\ privacyAccepts(Member(b, "sbom"))
        BY <2>1, <3>2
      <4>2. BuildWithDerivedSPDX(result_, Member(b, "sbom"), provenance, key) =
              IF /\ result_.sealed
                 /\ privacyAccepts(result_)
                 /\ result_.wantsSBOM
                 /\ ValidateDerivedPair(Member(b, "sbom"), provenance)
                 /\ privacyAccepts(Member(b, "sbom"))
                 /\ SubjectMatches(result_, provenance)
                 /\ parsePublicKey(key)
              THEN {buildCanonicalTarPaths(files, bundlePathsV2)} ELSE {}
        BY DEF BuildWithDerivedSPDX, files
      <4> HIDE DEF result_, key, provenance
      <4> QED  BY <2>1, <2>6, <3>6, <4>1, <4>2
    <3> QED  BY <2>3, <2>6, <3>2, <3>7 DEF BundleStands
  <2>7. CASE ~derived
    <3> DEFINE m == expectedManifest(result_, sbom, key)
               st == expectedStatement(result_, sbom, m)
               has == sbom # {}
               files == [p \in Range(bundlePaths(has)) |->
                    CASE p = "attestation" -> st
                      [] p = "manifest" -> m
                      [] p = "verification" -> result_
                      [] p = "sbom" -> CHOOSE s \in sbom : TRUE
                      [] p = "signature" -> Signed("statement", key, st)
                      [] p = "key" -> [key |-> key]]
    <3>1. has = hasSBOM
      OBVIOUS
    <3>2. paths = bundlePaths(has)
      BY <2>2, <2>7 DEF bundlePaths
    <3>3. Range(paths) \subseteq {"attestation", "manifest", "verification", "sbom", "signature", "key"}
      BY <3>2 DEF bundlePaths, Range
    <3>4. manifest = m /\ statement = st
      BY <2>1, <2>7
    <3>5. hasSBOM => (CHOOSE s \in sbom : TRUE) = Member(b, "sbom")
      OBVIOUS
    <3>6. \A p \in Range(paths) : files[p] = Member(b, p)
      <4>1. \A p \in Range(paths) : p = "sbom" => hasSBOM
        BY <2>2
      <4> HIDE DEF m, st, sbom
      <4> QED  BY <2>4, <2>5, <3>2, <3>3, <3>4, <3>5, <4>1
    <3> HIDE DEF files
    <3>7. b = buildCanonicalTarPaths(files, bundlePaths(has))
      <4>1. \A i \in DOMAIN paths : paths[i] \in Range(paths)
        BY DEF Range
      <4> DEFINE g == [p \in Members(b) |-> Member(b, p)]
      <4>2. \A i \in DOMAIN paths : g[paths[i]] = files[paths[i]]
        BY <2>2, <3>6, <4>1
      <4>3. b = buildCanonicalTarPaths(g, paths)
        BY <2>2
      <4> HIDE DEF g, has
      <4>4. b = buildCanonicalTarPaths(files, paths)
        BY <4>2, <4>3 DEF buildCanonicalTarPaths
      <4> QED  BY <3>2, <4>4
    <3>8. b \in BuildWithSPDX(result_, sbom, key)
      <4>1. result_.wantsSBOM = has /\ \A s \in sbom : s.form = "supplied" /\ privacyAccepts(s)
        BY <2>1, <2>7, <3>1
      <4> HIDE DEF sbom
      <4>2. BuildWithSPDX(result_, sbom, key) =
              IF /\ result_.sealed
                 /\ privacyAccepts(result_)
                 /\ result_.wantsSBOM = has
                 /\ \A s \in sbom : s.form = "supplied" /\ privacyAccepts(s)
                 /\ parsePublicKey(key)
              THEN {buildCanonicalTarPaths(files, bundlePaths(has))} ELSE {}
        BY DEF BuildWithSPDX, files
      <4> HIDE DEF result_, key, has
      <4> QED  BY <2>1, <2>7, <3>7, <4>1, <4>2
    <3> QED  BY <2>3, <2>7, <3>8 DEF BundleStands
  <2> QED  BY <2>6, <2>7
<1> QED  BY <1>4, <1>5

\* Numbers that rise from each to the next rise throughout.
LEMMA Rising ==
    ASSUME NEW n \in Nat, NEW f, \A i \in 1..n : f[i] \in Nat, \A i \in 1..(n - 1) : f[i] < f[i + 1]
    PROVE  \A i, j \in 1..n : i < j => f[i] < f[j]
<1> SUFFICES ASSUME NEW i \in 1..n, NEW j \in 1..n, i < j, ~(f[i] < f[j])
             PROVE  FALSE
  OBVIOUS
<1> DEFINE B == {k \in 1..n : i < k /\ ~(f[i] < f[k])}
           less == {ss \in Nat \X Nat : ss[1] < ss[2]}
<1>1. B \subseteq Nat /\ j \in B /\ B # {}
  OBVIOUS
<1>2. IsWellFoundedOn(less, Nat)
  BY NatLessThanWellFounded DEF OpToRel
<1>3. PICK m \in B : \A k \in B : ~ (<<k, m>> \in less)
  <2> HIDE DEF B, less
  <2> QED  BY <1>1, <1>2, WFMin
<1>4. m \in 1..n /\ i < m /\ ~(f[i] < f[m]) /\ m - 1 \in 1..n /\ m - 1 \in 1..(n - 1) /\ (m - 1) + 1 = m
  OBVIOUS
<1>5. m - 1 \notin B
  <2>1. <<m - 1, m>> \in less
    BY <1>4
  <2> HIDE DEF less, B
  <2> QED  BY <1>3, <2>1
<1>6. f[m - 1] < f[m]
  BY <1>4
<1>7. f[i] \in Nat /\ f[m - 1] \in Nat /\ f[m] \in Nat
  BY <1>4
<1>8. CASE m - 1 = i
  BY <1>4, <1>6, <1>8
<1>9. CASE m - 1 # i
  <2>1. i < m - 1
    BY <1>4, <1>9
  <2>2. f[i] < f[m - 1]
    BY <1>4, <1>5, <2>1
  <2> QED  BY <1>4, <1>6, <1>7, <2>2
<1> QED  BY <1>8, <1>9

DecodedKeys(keys) == IsList(keys) /\ \A i \in DOMAIN keys : keys[i] \in [key : Nat, status : STRING]

LEMMA KeysMeaning ==
    ASSUME NEW keys, DecodedKeys(keys)
    PROVE  KeysInOrder(keys) <=>
             /\ Len(keys) \in 1..KeyLimit
             /\ StrictlyOrdered(keys)
             /\ \A i \in DOMAIN keys : validKeyID(keys[i].key) /\ keys[i].status \in {"trusted", "revoked"}
<1> DEFINE n == Len(keys)
           f == [i \in 1..n |-> keys[i].key]
<1>1. n \in Nat /\ DOMAIN keys = 1..n /\ \A i \in 1..n : keys[i].key \in Nat
  BY DEF DecodedKeys, IsList
<1>2. StrictlyOrdered(keys) <=> \A i \in 1..(n - 1) : f[i] < f[i + 1]
  <2>1. \A i \in 1..(n - 1) : i \in 1..n /\ i + 1 \in 1..n
    BY <1>1
  <2>2. \A i \in 1..(n - 1) : f[i] = keys[i].key /\ f[i + 1] = keys[i + 1].key
    BY <2>1
  <2> HIDE DEF f
  <2> QED  BY <2>2 DEF StrictlyOrdered
<1>3. (\A i, j \in 1..n : i < j => f[i] < f[j]) <=> \A i, j \in DOMAIN keys : i < j => keys[i].key < keys[j].key
  BY <1>1
<1>4. (\A i \in 1..(n - 1) : f[i] < f[i + 1]) => \A i, j \in 1..n : i < j => f[i] < f[j]
  <2>1. \A i \in 1..n : f[i] \in Nat
    BY <1>1
  <2> HIDE DEF n, f
  <2> QED  BY <1>1, <2>1, Rising
<1>5. (\A i, j \in 1..n : i < j => f[i] < f[j]) => \A i \in 1..(n - 1) : f[i] < f[i + 1]
  <2>1. \A i \in 1..(n - 1) : i \in 1..n /\ i + 1 \in 1..n /\ i < i + 1
    BY <1>1
  <2> HIDE DEF n, f
  <2> QED  BY <2>1
<1> HIDE DEF f
<1> QED  BY <1>2, <1>3, <1>4, <1>5 DEF KeysInOrder, validKeyID

\* Looking a key up in a policy in order says what its entry says.
LEMMA StatusMeaning ==
    ASSUME NEW policy, DecodedKeys(policy.keys), KeysInOrder(policy.keys), NEW key
    PROVE  /\ statusOf(policy, key) = "trusted" <=> TrustsSigner(policy, key)
           /\ statusOf(policy, key) = "not-listed" <=> ~Listed(policy, key)
           /\ TrustsSigner(policy, key) => key # NoKey /\ Listed(policy, key)
<1> DEFINE keys == policy.keys
           at == CHOOSE i \in DOMAIN keys : keys[i].key = key
<1>1. /\ DOMAIN keys \subseteq Nat
      /\ \A i \in DOMAIN keys : /\ keys[i] \in [key : Nat, status : STRING]
                                /\ keys[i].key # NoKey /\ keys[i].status \in {"trusted", "revoked"}
      /\ \A i, j \in DOMAIN keys : i < j => keys[i].key < keys[j].key
  BY DEF DecodedKeys, IsList, KeysInOrder
<1>2. \A i, j \in DOMAIN keys : keys[i].key = keys[j].key => i = j
  <2> SUFFICES ASSUME NEW i \in DOMAIN keys, NEW j \in DOMAIN keys, keys[i].key = keys[j].key
               PROVE  i = j
    OBVIOUS
  <2>1. i \in Nat /\ j \in Nat /\ keys[i].key \in Nat /\ keys[j].key \in Nat
    BY <1>1
  <2> QED  BY <1>1, <2>1
<1>3. CASE Listed(policy, key)
  <2>1. at \in DOMAIN keys /\ keys[at].key = key
    BY <1>3 DEF Listed
  <2>2. statusOf(policy, key) = keys[at].status
    BY <1>3 DEF statusOf
  <2> HIDE DEF at
  <2>3. keys[at].status \in {"trusted", "revoked"} /\ key # NoKey
    BY <1>1, <2>1
  <2>4. keys[at].status = "trusted" <=> TrustsSigner(policy, key)
    <3>1. keys[at].status = "trusted" => keys[at] = [key |-> key, status |-> "trusted"]
      BY <1>1, <2>1
    <3>2. ASSUME NEW i \in DOMAIN keys, keys[i] = [key |-> key, status |-> "trusted"]
          PROVE  keys[at].status = "trusted"
      <4>1. keys[i].key = key /\ keys[i].status = "trusted"
        BY <3>2
      <4>2. i = at
        BY <1>2, <2>1, <4>1
      <4> QED  BY <4>1, <4>2
    <3> QED  BY <2>1, <3>1, <3>2 DEF TrustsSigner
  <2> QED  BY <1>3, <2>2, <2>3, <2>4
<1>4. CASE ~Listed(policy, key)
  <2>1. statusOf(policy, key) = "not-listed"
    BY <1>4 DEF statusOf
  <2>2. ~TrustsSigner(policy, key)
    BY <1>4 DEF TrustsSigner, Listed
  <2> QED  BY <1>4, <2>1, <2>2
<1> QED  BY <1>3, <1>4

\* One hop, said without the order of the checks.
HopGenuine(envelope, previous, next, kind) ==
    /\ previous # NoKey /\ next # NoKey /\ previous # next
    /\ SignedBy(envelope, kind, previous, kind)
    /\ envelope.payload.previous = previous /\ envelope.payload.next = next
    /\ envelope.payload.generation \in 1..GenerationLimit

LEMMA TransitionMeaning ==
    ASSUME NEW envelope, NEW previous, NEW next, NEW minimum \in Nat
    PROVE  VerifyOfflineTrustPolicyAuthorityTransition(envelope, previous, next, minimum) <=>
             /\ HopGenuine(envelope, previous, next, "transition")
             /\ minimum >= 1 /\ envelope.payload.generation >= minimum
<1> DEFINE g == envelope.payload.generation
<1>1. g \in 1..GenerationLimit /\ g >= minimum /\ minimum >= 1 => minimum \in 1..GenerationLimit
  BY DocumentBounds
<1> QED  BY <1>1 DEF VerifyOfflineTrustPolicyAuthorityTransition, HopGenuine, SignedBy, authentic, parsePublicKey,
     ValidateOfflineTrustPolicyAuthorityTransitionKeyPair, ParseOfflineTrustPolicyAuthorityTransitionPayload,
     validateOfflineTrustPolicyAuthorityTransition, validGeneration, validKeyID

LEMMA ReleaseTransitionMeaning ==
    ASSUME NEW envelope, NEW previous, NEW next, NEW minimum \in Nat
    PROVE  VerifyAuthorityTransition(envelope, previous, next, minimum) <=>
             /\ HopGenuine(envelope, previous, next, "release-transition")
             /\ envelope.payload.scope = Release
             /\ minimum >= 1 /\ envelope.payload.generation >= minimum
<1> DEFINE g == envelope.payload.generation
<1>1. g \in 1..GenerationLimit /\ g >= minimum /\ minimum >= 1 => minimum \in 1..GenerationLimit
  BY DocumentBounds
<1> QED  BY <1>1 DEF VerifyAuthorityTransition, HopGenuine, SignedBy, authenticateEnvelope, authentic,
     parsePublicKey, parseCanonicalSPKI, ParseAuthorityTransitionPayload, validateAuthorityTransition,
     validGeneration, validKeyID

-----------------------------------------------------------------------------
(* The path of authorities. *)

LEMMA DirectPath ==
    ASSUME NEW c, c.mode \in {"signed", "direct"}, NEW kind, NEW chainKind
    PROVE  /\ PathGenuine(c, kind, chainKind) <=> c.authority # NoKey
           /\ Hops(c) = <<>> /\ Path(c) = <<c.authority>>
<1>1. Path(c) = <<c.authority>> /\ Hops(c) = <<>>
  BY DEF Path, Hops
<1>2. DOMAIN Path(c) = 1..1 /\ Path(c)[1] = c.authority /\ Last(Path(c)) = c.authority /\ DOMAIN Hops(c) = {}
  BY <1>1 DEF Last
<1>3. c.mode # "chained"
  OBVIOUS
<1> QED  BY <1>1, <1>2, <1>3 DEF PathGenuine

LEMMA RotatedPath ==
    ASSUME NEW c, c.mode = "rotated", c.minimumAuthority \in Nat, NEW kind, NEW chainKind
    PROVE  /\ PathGenuine(c, kind, chainKind) <=>
                /\ HopGenuine(c.transition, c.root, c.authority, kind)
                /\ c.minimumAuthority >= 1 /\ c.transition.payload.generation >= c.minimumAuthority
           /\ Hops(c) = <<c.transition>> /\ Path(c) = <<c.root, c.authority>>
<1>1. Path(c) = <<c.root, c.authority>> /\ Hops(c) = <<c.transition>>
  BY DEF Path, Hops
<1> DEFINE path == Path(c)
           hops == Hops(c)
<1>2. DOMAIN path = {1, 2} /\ path[1] = c.root /\ path[2] = c.authority /\ Last(path) = c.authority
  BY <1>1 DEF Last
<1>3. DOMAIN hops = {1} /\ hops[1] = c.transition /\ Last(hops) = c.transition /\ hops # <<>>
  BY <1>1 DEF Last
<1>4. c.mode # "chained"
  OBVIOUS
<1> HIDE DEF path, hops
<1>5. (\A i, j \in DOMAIN path : path[i] # NoKey /\ (i # j => path[i] # path[j])) <=>
        c.root # NoKey /\ c.authority # NoKey /\ c.root # c.authority
  BY <1>2
<1>6. (\A i \in DOMAIN hops : /\ SignedBy(hops[i], kind, path[i], kind)
                              /\ hops[i].payload.previous = path[i]
                              /\ hops[i].payload.next = path[i + 1]
                              /\ hops[i].payload.generation \in 1..GenerationLimit) <=>
        /\ SignedBy(c.transition, kind, c.root, kind)
        /\ c.transition.payload.previous = c.root /\ c.transition.payload.next = c.authority
        /\ c.transition.payload.generation \in 1..GenerationLimit
  BY <1>2, <1>3
<1>7. \A i, j \in DOMAIN hops : i < j => hops[i].payload.generation < hops[j].payload.generation
  BY <1>3
<1>8. PathGenuine(c, kind, chainKind) <=>
        /\ c.mode = "chained" => c.chain.kind = chainKind /\ Len(hops) \in 2..MaxHops
        /\ \A i, j \in DOMAIN path : path[i] # NoKey /\ (i # j => path[i] # path[j])
        /\ Last(path) = c.authority
        /\ \A i \in DOMAIN hops : /\ SignedBy(hops[i], kind, path[i], kind)
                                  /\ hops[i].payload.previous = path[i]
                                  /\ hops[i].payload.next = path[i + 1]
                                  /\ hops[i].payload.generation \in 1..GenerationLimit
        /\ \A i, j \in DOMAIN hops : i < j => hops[i].payload.generation < hops[j].payload.generation
        /\ hops # <<>> => /\ c.minimumAuthority >= 1
                          /\ Last(hops).payload.generation >= c.minimumAuthority
  BY DEF PathGenuine, path, hops
<1> QED  BY <1>1, <1>2, <1>3, <1>4, <1>5, <1>6, <1>7, <1>8 DEF HopGenuine

\* The authorities of a chain, one by one.
LEMMA AuthoritiesOfChain ==
    ASSUME NEW chain, IsList(chain.hops), NEW root
    PROVE  LET path == AuthorityKeyIDs(chain, root)
               n == Len(chain.hops)
           IN  /\ DOMAIN path = 1..(n + 1) /\ Len(path) = n + 1
               /\ path[1] = root
               /\ \A i \in 1..n : path[i + 1] = chain.hops[i].next
               /\ Last(path) = path[n + 1]
<1> DEFINE n == Len(chain.hops)
           S == {root} \cup {chain.hops[i].next : i \in 1..n}
           f == [i \in 1..n |-> chain.hops[i].next]
           r == <<root>>
           path == r \o f
<1>1. n \in Nat /\ DOMAIN chain.hops = 1..n
  BY DEF IsList
<1>2. f \in Seq(S) /\ Len(f) = n /\ r \in Seq(S) /\ Len(r) = 1 /\ r[1] = root
  BY <1>1
<1>3. /\ path \in Seq(S)
      /\ Len(path) = Len(r) + Len(f)
      /\ \A i \in 1..(Len(r) + Len(f)) : path[i] = IF i <= Len(r) THEN r[i] ELSE f[i - Len(r)]
  <2>1. f \in Seq(S) /\ r \in Seq(S)
    BY <1>2
  <2> HIDE DEF f, r, S
  <2> QED  BY <2>1, ConcatProperties, Zenon
<1>4. Len(path) = n + 1 /\ \A i \in 1..(n + 1) : path[i] = IF i <= 1 THEN r[i] ELSE f[i - 1]
  <2>1. Len(r) = 1 /\ Len(f) = n /\ 1 + n = n + 1
    BY <1>1, <1>2
  <2> HIDE DEF f, r, S, n, path
  <2> QED  BY <1>3, <2>1
<1>5. path[1] = root
  <2> HIDE DEF path, f, r
  <2> QED  BY <1>1, <1>2, <1>4
<1>6. \A i \in 1..n : path[i + 1] = chain.hops[i].next
  <2> SUFFICES ASSUME NEW i \in 1..n PROVE path[i + 1] = chain.hops[i].next
    OBVIOUS
  <2>1. i + 1 \in 1..(n + 1) /\ ~(i + 1 <= 1) /\ (i + 1) - 1 = i
    BY <1>1
  <2>2. f[i] = chain.hops[i].next
    OBVIOUS
  <2> HIDE DEF path, f, r, n
  <2> QED  BY <1>4, <2>1, <2>2
<1>7. path = AuthorityKeyIDs(chain, root)
  BY <1>1 DEF AuthorityKeyIDs
<1>8. Last(path) = path[n + 1] /\ DOMAIN path = 1..(n + 1)
  <2> HIDE DEF path
  <2> QED  BY <1>1, <1>3, <1>4 DEF Last
<1> HIDE DEF path
<1> QED  BY <1>4, <1>5, <1>6, <1>7, <1>8

LEMMA ChainedPath ==
    ASSUME NEW c, c.mode = "chained", IsList(c.chain.hops), c.minimumAuthority \in Nat,
           NEW kind, NEW chainKind
    PROVE  LET path == AuthorityKeyIDs(c.chain, c.root)
               n == Len(c.chain.hops)
           IN  /\ Path(c) = path
               /\ Hops(c) = [i \in DOMAIN c.chain.hops |-> c.chain.hops[i].envelope]
               /\ PathGenuine(c, kind, chainKind) <=>
                    /\ c.chain.kind = chainKind /\ n \in 2..MaxHops
                    /\ \A i, j \in DOMAIN path : path[i] = path[j] => i = j
                    /\ \A i \in DOMAIN c.chain.hops :
                         HopGenuine(c.chain.hops[i].envelope, path[i], path[i + 1], kind)
                    /\ \A i \in 1..(n - 1) : HopGeneration(c.chain, i) < HopGeneration(c.chain, i + 1)
                    /\ c.minimumAuthority >= 1 /\ HopGeneration(c.chain, n) >= c.minimumAuthority
                    /\ Last(path) = c.authority
<1> DEFINE path == AuthorityKeyIDs(c.chain, c.root)
           n == Len(c.chain.hops)
           hops == [i \in DOMAIN c.chain.hops |-> c.chain.hops[i].envelope]
           g == [i \in 1..n |-> HopGeneration(c.chain, i)]
           Hop(i) == HopGenuine(c.chain.hops[i].envelope, path[i], path[i + 1], kind)
           Linked == \A i \in DOMAIN hops : /\ SignedBy(hops[i], kind, path[i], kind)
                                            /\ hops[i].payload.previous = path[i]
                                            /\ hops[i].payload.next = path[i + 1]
                                            /\ hops[i].payload.generation \in 1..GenerationLimit
           Apart == \A i, j \in DOMAIN path : path[i] # NoKey /\ (i # j => path[i] # path[j])
           Rises == \A i, j \in DOMAIN hops : i < j => hops[i].payload.generation < hops[j].payload.generation
           Steps == \A i \in 1..(n - 1) : HopGeneration(c.chain, i) < HopGeneration(c.chain, i + 1)
           Once == \A i, j \in DOMAIN path : path[i] = path[j] => i = j
<1>1. Path(c) = path /\ Hops(c) = hops
  BY DEF Path, Hops, AuthorityKeyIDs
<1>2. n \in Nat /\ DOMAIN c.chain.hops = 1..n /\ DOMAIN hops = 1..n /\ Len(hops) = n
  BY DEF IsList
<1>3. DOMAIN path = 1..(n + 1) /\ Last(path) = path[n + 1]
  BY AuthoritiesOfChain
<1>4. \A i \in 1..n : hops[i] = c.chain.hops[i].envelope
  BY <1>2
<1>5. \A i \in 1..n : g[i] = hops[i].payload.generation /\ g[i] = HopGeneration(c.chain, i)
  BY <1>4 DEF HopGeneration
<1>6. n >= 2 => Last(hops) = c.chain.hops[n].envelope /\ hops # <<>>
  <2>1. n >= 2 => n \in 1..n /\ Last(hops) = hops[n] /\ hops # <<>>
    BY <1>2 DEF Last
  <2> QED  BY <2>1, <1>4
<1>7. PathGenuine(c, kind, chainKind) <=>
        /\ c.chain.kind = chainKind /\ n \in 2..MaxHops
        /\ Apart /\ Last(path) = c.authority /\ Linked /\ Rises
        /\ hops # <<>> => c.minimumAuthority >= 1 /\ Last(hops).payload.generation >= c.minimumAuthority
  <2> HIDE DEF hops, path
  <2> QED  BY <1>1, <1>2 DEF PathGenuine
<1> HIDE DEF hops, path, g, n
<1>8. ASSUME n \in 2..MaxHops
      PROVE  Apart /\ Linked <=> Once /\ \A i \in DOMAIN c.chain.hops : Hop(i)
  <2>1. \A i \in 1..n : i \in DOMAIN path /\ i + 1 \in DOMAIN path /\ i # i + 1
    BY <1>2, <1>3
  <2>2. \A k \in DOMAIN path : \E i \in 1..n : k = i \/ k = i + 1
    <3> SUFFICES ASSUME NEW k \in 1..(n + 1) PROVE \E i \in 1..n : k = i \/ k = i + 1
      BY <1>3
    <3>1. CASE k = 1
      BY <1>2, <1>8, <3>1
    <3>2. CASE k # 1
      <4>1. k - 1 \in 1..n /\ k = (k - 1) + 1
        BY <1>2, <3>2
      <4> QED  BY <4>1
    <3> QED  BY <3>1, <3>2
  <2>3. Apart /\ Linked => Once /\ \A i \in DOMAIN c.chain.hops : Hop(i)
    BY <1>2, <1>4, <2>1 DEF HopGenuine
  <2>4. Once /\ (\A i \in DOMAIN c.chain.hops : Hop(i)) => Linked
    BY <1>2, <1>4 DEF HopGenuine
  <2>5. Once /\ (\A i \in DOMAIN c.chain.hops : Hop(i)) => Apart
    <3> SUFFICES ASSUME Once, \A i \in DOMAIN c.chain.hops : Hop(i) PROVE Apart
      OBVIOUS
    <3>1. \A i \in 1..n : path[i] # NoKey /\ path[i + 1] # NoKey
      BY <1>2 DEF HopGenuine
    <3>2. \A k \in DOMAIN path : path[k] # NoKey
      BY <2>2, <3>1
    <3> QED  BY <3>2
  <2> QED  BY <2>3, <2>4, <2>5
<1>9. ASSUME n \in 2..MaxHops, Linked
      PROVE  Rises <=> Steps
  <2>1. \A i \in 1..n : g[i] \in Nat
    BY <1>2, <1>5, <1>9, DocumentBounds
  <2>2. Steps <=> \A i \in 1..(n - 1) : g[i] < g[i + 1]
    <3>1. \A i \in 1..(n - 1) : i \in 1..n /\ i + 1 \in 1..n
      BY <1>2
    <3> QED  BY <1>5, <3>1
  <2>3. Rises <=> \A i, j \in 1..n : i < j => g[i] < g[j]
    BY <1>2, <1>5
  <2>4. Steps => Rises
    BY <1>2, <2>1, <2>2, <2>3, Rising
  <2>5. Rises => Steps
    <3>1. \A i \in 1..(n - 1) : i \in 1..n /\ i + 1 \in 1..n /\ i < i + 1
      BY <1>2
    <3> QED  BY <2>2, <2>3, <3>1
  <2> QED  BY <2>4, <2>5
<1>10. n \in 2..MaxHops => n >= 2
  BY <1>2
<1>11. HopGeneration(c.chain, n) = c.chain.hops[n].envelope.payload.generation
  BY DEF HopGeneration
<1>12. PathGenuine(c, kind, chainKind) <=>
         /\ c.chain.kind = chainKind /\ n \in 2..MaxHops
         /\ Once /\ (\A i \in DOMAIN c.chain.hops : Hop(i)) /\ Steps
         /\ c.minimumAuthority >= 1 /\ HopGeneration(c.chain, n) >= c.minimumAuthority
         /\ Last(path) = c.authority
  <2> HIDE DEF Once, Hop, Steps, Apart, Linked, Rises
  <2> QED  BY <1>6, <1>7, <1>8, <1>9, <1>10, <1>11
<1> QED  BY <1>1, <1>12 DEF path, n, hops

LEMMA ChainVerifies ==
    ASSUME NEW c, c.mode = "chained", IsList(c.chain.hops), c.minimumAuthority \in Nat
    PROVE  VerifyOfflineTrustPolicyAuthorityTransitionChain(c.chain, c.root, c.authority, c.minimumAuthority)
             <=> PathGenuine(c, "transition", "chain")
<1> DEFINE path == AuthorityKeyIDs(c.chain, c.root)
           n == Len(c.chain.hops)
           Once == \A i, j \in DOMAIN path : path[i] = path[j] => i = j
           Steps == \A i \in 1..(n - 1) : HopGeneration(c.chain, i) < HopGeneration(c.chain, i + 1)
           Hop(i) == HopGenuine(c.chain.hops[i].envelope, path[i], path[i + 1], "transition")
           V(i) == VerifyOfflineTrustPolicyAuthorityTransition(c.chain.hops[i].envelope, path[i], path[i + 1], 1)
           Hops_ == \A i \in DOMAIN c.chain.hops : Hop(i)
           Vs == \A i \in DOMAIN c.chain.hops : V(i)
<1>1. PathGenuine(c, "transition", "chain") <=>
        /\ c.chain.kind = "chain" /\ n \in 2..MaxHops /\ Once /\ Hops_ /\ Steps
        /\ c.minimumAuthority >= 1 /\ HopGeneration(c.chain, n) >= c.minimumAuthority
        /\ Last(path) = c.authority
  BY ChainedPath
<1>2. /\ n \in Nat /\ DOMAIN c.chain.hops = 1..n /\ DOMAIN path = 1..(n + 1)
      /\ Last(path) = path[n + 1] /\ path[1] = c.root
  BY AuthoritiesOfChain DEF IsList
<1>3. VerifyOfflineTrustPolicyAuthorityTransitionChain(c.chain, c.root, c.authority, c.minimumAuthority) <=>
        /\ validGeneration(c.minimumAuthority) /\ c.chain.kind = "chain" /\ n \in 2..MaxHops
        /\ c.root # NoKey /\ c.authority # NoKey /\ c.root # c.authority
        /\ Once /\ Vs /\ Steps
        /\ HopGeneration(c.chain, n) >= c.minimumAuthority
        /\ Last(path) = c.authority
  BY DEF VerifyOfflineTrustPolicyAuthorityTransitionChain, parsePublicKey, MinHops,
         validateOfflineTrustPolicyAuthorityTransitionChain
<1> HIDE DEF path, n
<1>4. Vs <=> Hops_
  <2>1. ASSUME NEW i \in DOMAIN c.chain.hops PROVE V(i) <=> Hop(i)
    <3>1. Hop(i) => c.chain.hops[i].envelope.payload.generation >= 1
      BY DocumentBounds DEF HopGenuine
    <3> QED  BY <3>1, TransitionMeaning
  <2> QED  BY <2>1
<1>5. ASSUME Hops_, n \in 2..MaxHops, HopGeneration(c.chain, n) >= c.minimumAuthority
      PROVE  validGeneration(c.minimumAuthority) <=> c.minimumAuthority >= 1
  <2>1. n \in DOMAIN c.chain.hops
    BY <1>2, <1>5
  <2>2. HopGeneration(c.chain, n) \in 1..GenerationLimit
    BY <1>5, <2>1 DEF HopGenuine, HopGeneration
  <2> QED  BY <1>5, <2>2, DocumentBounds DEF validGeneration
<1>6. ASSUME Hops_, Once, n \in 2..MaxHops, Last(path) = c.authority
      PROVE  c.root # NoKey /\ c.authority # NoKey /\ c.root # c.authority
  <2>1. 1 \in DOMAIN c.chain.hops /\ n \in DOMAIN c.chain.hops /\ 1 \in DOMAIN path /\ n + 1 \in DOMAIN path /\ n + 1 # 1
    BY <1>2, <1>6
  <2>2. path[1] # NoKey /\ path[n + 1] # NoKey
    BY <1>6, <2>1 DEF HopGenuine
  <2> QED  BY <1>2, <1>6, <2>1, <2>2
<1> HIDE DEF Once, Steps, Hops_, Vs
<1> QED  BY <1>1, <1>3, <1>4, <1>5, <1>6

LEMMA ReleaseChainVerifies ==
    ASSUME NEW c, c.mode = "chained", IsList(c.chain.hops), c.minimumAuthority \in Nat
    PROVE  VerifyAuthorityTransitionChain(c.chain, c.root, c.authority, c.minimumAuthority) <=>
             /\ PathGenuine(c, "release-transition", "release-chain")
             /\ \A i \in DOMAIN Hops(c) : Hops(c)[i].payload.scope = Release
             /\ c.chain.scope = Release
<1> DEFINE path == AuthorityKeyIDs(c.chain, c.root)
           n == Len(c.chain.hops)
           Once == \A i, j \in DOMAIN path : path[i] = path[j] => i = j
           Steps == \A i \in 1..(n - 1) : HopGeneration(c.chain, i) < HopGeneration(c.chain, i + 1)
           Hop(i) == HopGenuine(c.chain.hops[i].envelope, path[i], path[i + 1], "release-transition")
           V(i) == VerifyAuthorityTransition(c.chain.hops[i].envelope, path[i], path[i + 1], 1)
           Hops_ == \A i \in DOMAIN c.chain.hops : Hop(i)
           Scopes == \A i \in DOMAIN c.chain.hops : c.chain.hops[i].envelope.payload.scope = Release
           Vs == \A i \in DOMAIN c.chain.hops : V(i)
<1>1. /\ PathGenuine(c, "release-transition", "release-chain") <=>
           /\ c.chain.kind = "release-chain" /\ n \in 2..MaxHops /\ Once /\ Hops_ /\ Steps
           /\ c.minimumAuthority >= 1 /\ HopGeneration(c.chain, n) >= c.minimumAuthority
           /\ Last(path) = c.authority
      /\ Hops(c) = [i \in DOMAIN c.chain.hops |-> c.chain.hops[i].envelope]
  BY ChainedPath
<1>2. /\ n \in Nat /\ DOMAIN c.chain.hops = 1..n /\ DOMAIN path = 1..(n + 1)
      /\ Last(path) = path[n + 1] /\ path[1] = c.root
  BY AuthoritiesOfChain DEF IsList
<1>3. VerifyAuthorityTransitionChain(c.chain, c.root, c.authority, c.minimumAuthority) <=>
        /\ validGeneration(c.minimumAuthority) /\ c.chain.kind = "release-chain" /\ n \in 2..MaxHops
        /\ c.chain.scope = Release
        /\ c.root # NoKey /\ c.authority # NoKey /\ c.root # c.authority
        /\ Once /\ Vs /\ Steps
        /\ HopGeneration(c.chain, n) >= c.minimumAuthority
        /\ Last(path) = c.authority
  BY DEF VerifyAuthorityTransitionChain, parseCanonicalSPKI, MinHops, validateAuthorityTransitionChainShape
<1>7. (\A i \in DOMAIN Hops(c) : Hops(c)[i].payload.scope = Release) <=> Scopes
  BY <1>1
<1> HIDE DEF path, n
<1>4. Vs <=> Hops_ /\ Scopes
  <2>1. ASSUME NEW i \in DOMAIN c.chain.hops
        PROVE  V(i) <=> Hop(i) /\ c.chain.hops[i].envelope.payload.scope = Release
    <3>1. Hop(i) => c.chain.hops[i].envelope.payload.generation >= 1
      BY DocumentBounds DEF HopGenuine
    <3> QED  BY <3>1, ReleaseTransitionMeaning
  <2> QED  BY <2>1
<1>5. ASSUME Hops_, n \in 2..MaxHops, HopGeneration(c.chain, n) >= c.minimumAuthority
      PROVE  validGeneration(c.minimumAuthority) <=> c.minimumAuthority >= 1
  <2>1. n \in DOMAIN c.chain.hops
    BY <1>2, <1>5
  <2>2. HopGeneration(c.chain, n) \in 1..GenerationLimit
    BY <1>5, <2>1 DEF HopGenuine, HopGeneration
  <2> QED  BY <1>5, <2>2, DocumentBounds DEF validGeneration
<1>6. ASSUME Hops_, Once, n \in 2..MaxHops, Last(path) = c.authority
      PROVE  c.root # NoKey /\ c.authority # NoKey /\ c.root # c.authority
  <2>1. 1 \in DOMAIN c.chain.hops /\ n \in DOMAIN c.chain.hops /\ 1 \in DOMAIN path /\ n + 1 \in DOMAIN path /\ n + 1 # 1
    BY <1>2, <1>6
  <2>2. path[1] # NoKey /\ path[n + 1] # NoKey
    BY <1>6, <2>1 DEF HopGenuine
  <2> QED  BY <1>2, <1>6, <2>1, <2>2
<1> HIDE DEF Once, Steps, Hops_, Vs, Scopes
<1> QED  BY <1>1, <1>3, <1>4, <1>5, <1>6, <1>7

PolicyDecoded(policy) == policy.kind \in {"policy-v1", "policy", "release-policy"} => DecodedKeys(policy.keys)

LEMMA SignedPolicyMeaning ==
    ASSUME NEW c, c.minimum \in Nat, PolicyDecoded(c.policy.payload)
    PROVE  PolicyGenuine(c, "policy") <=>
             /\ ParseSignedOfflineTrustPolicy(c.policy, c.authority) = "ok"
             /\ VerifySignedOfflineTrustPolicyFloor(c.policy.payload, c.minimum) = "ok"
<1> DEFINE policy == c.policy.payload
           Parses == parseOfflineTrustPolicyV2(policy)
<1>1. CASE policy.kind # "policy"
  BY <1>1 DEF ParseSignedOfflineTrustPolicy, parseOfflineTrustPolicyV2, PolicyGenuine, SignedBy
<1>2. CASE policy.kind = "policy"
  <2>1. DecodedKeys(policy.keys)
    BY <1>2 DEF PolicyDecoded
  <2>2. Parses <=> validGeneration(policy.generation) /\ KeysInOrder(policy.keys)
    BY <1>2, <2>1, KeysMeaning DEF parseOfflineTrustPolicyV2
  <2>3. Listed(policy, c.authority) <=> c.authority \in {policy.keys[i].key : i \in DOMAIN policy.keys}
    BY DEF Listed
  <2>4. ParseSignedOfflineTrustPolicy(c.policy, c.authority) = "ok" <=>
          authentic(c.policy, "policy", c.authority) /\ Parses /\ ~Listed(policy, c.authority)
    BY DEF ParseSignedOfflineTrustPolicy
  <2>5. authentic(c.policy, "policy", c.authority) <=> SignedBy(c.policy, "policy", c.authority, "policy")
    BY <1>2 DEF authentic, SignedBy, parsePublicKey
  <2>6. validGeneration(policy.generation) =>
          (VerifySignedOfflineTrustPolicyFloor(policy, c.minimum) = "ok" <=>
              c.minimum >= 1 /\ policy.generation \in c.minimum..GenerationLimit)
    BY DocumentBounds DEF VerifySignedOfflineTrustPolicyFloor, validGeneration
  <2>7. c.minimum >= 1 /\ policy.generation \in c.minimum..GenerationLimit => validGeneration(policy.generation)
    BY DocumentBounds DEF validGeneration
  <2> HIDE DEF Parses
  <2> QED  BY <2>2, <2>3, <2>4, <2>5, <2>6, <2>7 DEF PolicyGenuine
<1> QED  BY <1>1, <1>2

LEMMA ReleasePolicyMeaning ==
    ASSUME NEW c, c.minimum \in Nat, PolicyDecoded(c.policy.payload)
    PROVE  PolicyOK(c) <=> PolicyGenuine(c, "release-policy") /\ c.policy.payload.scope = Release
<1> DEFINE policy == c.policy.payload
<1>1. CASE policy.kind # "release-policy"
  BY <1>1 DEF PolicyOK, VerifyPolicy, ParsePolicyPayload, PolicyGenuine, SignedBy
<1>2. CASE policy.kind = "release-policy"
  <2>1. DecodedKeys(policy.keys)
    BY <1>2 DEF PolicyDecoded
  <2>2. ParsePolicyPayload(policy) <=> policy.scope = Release /\ validGeneration(policy.generation) /\ KeysInOrder(policy.keys)
    BY <1>2, <2>1, KeysMeaning DEF ParsePolicyPayload, validatePolicy
  <2>3. Listed(policy, c.authority) <=> c.authority \in {policy.keys[i].key : i \in DOMAIN policy.keys}
    BY DEF Listed
  <2>5. authenticateEnvelope(c.policy, "release-policy", c.authority) /\ parseCanonicalSPKI(c.authority) <=>
          SignedBy(c.policy, "release-policy", c.authority, "release-policy")
    BY <1>2 DEF authenticateEnvelope, authentic, SignedBy, parsePublicKey, parseCanonicalSPKI
  <2>6. validGeneration(policy.generation) /\ validGeneration(c.minimum) /\ policy.generation >= c.minimum <=>
              c.minimum >= 1 /\ policy.generation \in c.minimum..GenerationLimit
    BY DocumentBounds DEF validGeneration
  <2> QED  BY <2>2, <2>3, <2>5, <2>6 DEF PolicyGenuine, PolicyOK, VerifyPolicy
<1> QED  BY <1>1, <1>2

LEMMA Unlisted ==
    ASSUME NEW policy, DecodedKeys(policy.keys), KeysInOrder(policy.keys), NEW key, key # NoKey
    PROVE  EvaluateSignedSignerKeyID(policy, key) = "not-listed" <=>
             \A k \in DOMAIN policy.keys : policy.keys[k].key # key
BY StatusMeaning DEF EvaluateSignedSignerKeyID, validKeyID, Listed

LEMMA SignerMeaning ==
    ASSUME NEW policy, DecodedKeys(policy.keys), KeysInOrder(policy.keys), NEW key
    PROVE  /\ EvaluateSignedSignerKeyID(policy, key) = "trusted" <=> TrustsSigner(policy, key)
           /\ EvaluateSignerKeyID(policy, key) = "trusted" <=> TrustsSigner(policy, key)
           /\ EvaluateReleaseSignerKeyID(policy, key) = "trusted" <=> TrustsSigner(policy, key)
<1>1. statusOf(policy, key) = "trusted" <=> TrustsSigner(policy, key)
  BY StatusMeaning
<1>2. TrustsSigner(policy, key) => key # NoKey
  BY StatusMeaning
<1> QED  BY <1>1, <1>2 DEF EvaluateSignedSignerKeyID, EvaluateSignerKeyID, EvaluateReleaseSignerKeyID, validKeyID

LEMMA GenuineKeys ==
    ASSUME NEW c, NEW kind \in {"policy", "release-policy"},
           PolicyDecoded(c.policy.payload), PolicyGenuine(c, kind)
    PROVE  DecodedKeys(c.policy.payload.keys) /\ KeysInOrder(c.policy.payload.keys)
BY DEF PolicyGenuine, SignedBy, PolicyDecoded

\* The policy stands exactly when its path of authorities and it are genuine.
LEMMA TrustMeaning ==
    ASSUME NEW c, c.mode \in SignedModes, c.minimum \in Nat, c.minimumAuthority \in Nat,
           PolicyDecoded(c.policy.payload), c.chain.kind = "chain" => IsList(c.chain.hops)
    PROVE  TrustOf(c) # "trusted" /\ (TrustOf(c) = "ok" <=> AttestationPolicyGenuine(c))
<1> DEFINE policy == c.policy.payload
           Clear == \A i \in DOMAIN Path(c) : \A k \in DOMAIN policy.keys : policy.keys[k].key # Path(c)[i]
           parsed == ParseSignedOfflineTrustPolicy(c.policy, c.authority)
           floor == VerifySignedOfflineTrustPolicyFloor(policy, c.minimum)
<1>1. PolicyGenuine(c, "policy") <=> parsed = "ok" /\ floor = "ok"
  BY SignedPolicyMeaning
<1>2. AttestationPolicyGenuine(c) <=> PathGenuine(c, "transition", "chain") /\ PolicyGenuine(c, "policy") /\ Clear
  BY DEF AttestationPolicyGenuine
<1>3. parsed \in {"invalid", "role-conflict", "ok"} /\ floor \in {"invalid-or-unavailable", "generation-below-minimum", "ok"}
  BY DEF ParseSignedOfflineTrustPolicy, VerifySignedOfflineTrustPolicyFloor
<1>4. PolicyGenuine(c, "policy") => c.authority # NoKey /\ \A k \in DOMAIN policy.keys : policy.keys[k].key # c.authority
  BY DEF PolicyGenuine, SignedBy
<1>5. PolicyGenuine(c, "policy") => DecodedKeys(policy.keys) /\ KeysInOrder(policy.keys)
  BY GenuineKeys
<1>6. CASE c.mode = "signed"
  <2>1. TrustOf(c) = IF parsed # "ok" THEN "invalid-or-unavailable" ELSE floor
    BY <1>6 DEF TrustOf, signedPolicy
  <2>2. Path(c) = <<c.authority>> /\ (PathGenuine(c, "transition", "chain") <=> c.authority # NoKey)
    BY <1>6, DirectPath
  <2>3. PolicyGenuine(c, "policy") => Clear
    BY <1>4, <2>2
  <2> HIDE DEF parsed, floor, Clear
  <2> QED  BY <1>1, <1>2, <1>3, <1>4, <2>1, <2>2, <2>3
<1>7. CASE c.mode = "rotated"
  <2> DEFINE hop == VerifyOfflineTrustPolicyAuthorityTransition(c.transition, c.root, c.authority, c.minimumAuthority)
             pair == ValidateOfflineTrustPolicyAuthorityTransitionKeyPair(c.root, c.authority)
             role == EvaluateSignedSignerKeyID(policy, c.root)
  <2>1. TrustOf(c) = IF ~pair THEN "invalid-or-unavailable" ELSE IF ~hop THEN "invalid-or-unavailable"
                     ELSE IF parsed = "role-conflict" THEN "authority-role-conflict"
                     ELSE IF parsed # "ok" THEN "invalid-or-unavailable"
                     ELSE IF floor # "ok" THEN floor
                     ELSE IF role # "not-listed" THEN "authority-role-conflict" ELSE "ok"
    BY <1>7 DEF TrustOf, verifyWithRotatedSignedOfflineTrustPolicy
  <2>2. Path(c) = <<c.root, c.authority>> /\ (PathGenuine(c, "transition", "chain") <=> hop)
    BY <1>7, RotatedPath, TransitionMeaning
  <2>3. hop => pair /\ c.root # NoKey
    BY DEF VerifyOfflineTrustPolicyAuthorityTransition, parsePublicKey,
           ValidateOfflineTrustPolicyAuthorityTransitionKeyPair
  <2>4. PolicyGenuine(c, "policy") /\ hop => (role = "not-listed" <=> \A k \in DOMAIN policy.keys : policy.keys[k].key # c.root)
    BY <1>5, <2>3, Unlisted
  <2>5. PolicyGenuine(c, "policy") => (Clear <=> \A k \in DOMAIN policy.keys : policy.keys[k].key # c.root)
    <3>1. DOMAIN Path(c) = {1, 2} /\ Path(c)[1] = c.root /\ Path(c)[2] = c.authority
      BY <2>2
    <3> QED  BY <1>4, <3>1
  <2> HIDE DEF parsed, floor, hop, pair, role, Clear
  <2> QED  BY <1>1, <1>2, <1>3, <2>1, <2>2, <2>3, <2>4, <2>5
<1>8. CASE c.mode = "chained"
  <2> DEFINE chain == VerifyOfflineTrustPolicyAuthorityTransitionChain(c.chain, c.root, c.authority, c.minimumAuthority)
             pair == ValidateOfflineTrustPolicyAuthorityTransitionKeyPair(c.root, c.authority)
             path == AuthorityKeyIDs(c.chain, c.root)
             role == \E i \in DOMAIN path : EvaluateSignedSignerKeyID(policy, path[i]) # "not-listed"
  <2>1. TrustOf(c) = IF ~pair THEN "invalid-or-unavailable" ELSE IF ~chain THEN "invalid-or-unavailable"
                     ELSE IF parsed = "role-conflict" THEN "authority-role-conflict"
                     ELSE IF parsed # "ok" THEN "invalid-or-unavailable"
                     ELSE IF floor # "ok" THEN floor
                     ELSE IF role THEN "authority-role-conflict" ELSE "ok"
    BY <1>8 DEF TrustOf, verifyWithChainedSignedOfflineTrustPolicy
  <2>2. PathGenuine(c, "transition", "chain") <=> chain
    <3>1. CASE c.chain.kind = "chain"
      BY <1>8, <3>1, ChainVerifies
    <3>2. CASE c.chain.kind # "chain"
      BY <1>8, <3>2 DEF PathGenuine, VerifyOfflineTrustPolicyAuthorityTransitionChain
    <3> QED  BY <3>1, <3>2
  <2>3. chain => pair /\ c.chain.kind = "chain"
    BY DEF VerifyOfflineTrustPolicyAuthorityTransitionChain,
           ValidateOfflineTrustPolicyAuthorityTransitionKeyPair
  <2>4. chain => Path(c) = path
    BY <1>8, <2>3, ChainedPath
  <2>5. chain => \A i \in DOMAIN path : path[i] # NoKey
    BY <2>2, <2>4 DEF PathGenuine
  <2>6. PolicyGenuine(c, "policy") /\ chain => (~role <=> Clear)
    <3> SUFFICES ASSUME PolicyGenuine(c, "policy"), chain PROVE ~role <=> Clear
      OBVIOUS
    <3>1. \A i \in DOMAIN path : EvaluateSignedSignerKeyID(policy, path[i]) = "not-listed" <=>
                                   \A k \in DOMAIN policy.keys : policy.keys[k].key # path[i]
      BY <1>5, <2>5, Unlisted
    <3> HIDE DEF path, policy
    <3> QED  BY <2>4, <3>1
  <2> HIDE DEF parsed, floor, chain, pair, role, Clear
  <2> QED  BY <1>1, <1>2, <1>3, <2>1, <2>2, <2>3, <2>6
<1> QED  BY <1>6, <1>7, <1>8 DEF SignedModes

\* The index and the authority's path stand exactly when they are genuine.
LEMMA IndexMeaning ==
    ASSUME NEW c, c.mode \in {"direct", "rotated", "chained"}, c.minimumAuthority \in Nat,
           AtMostOne(c.pin), c.mode = "direct" => c.authority # NoKey,
           c.chain.kind = "release-chain" => IsList(c.chain.hops),
           c.index.kind = "index" => IsList(c.index.files) /\ \A i \in DOMAIN c.index.files : c.index.files[i].path \in Nat
    PROVE  IndexOK(c) <=> c.pin \subseteq {c.index} /\ ReleaseAuthorityGenuine(c)
<1> DEFINE files == c.index.files
           n == Len(files)
           f == [i \in 1..n |-> files[i].path]
           Shape == /\ c.index.kind = "index" /\ c.index.scope = Release
                    /\ validGeneration(c.index.generation)
                    /\ Len(c.index.files) <= FileLimit
                    /\ \A i, j \in DOMAIN c.index.files : i < j => c.index.files[i].path < c.index.files[j].path
                    /\ \E i \in DOMAIN c.index.files : c.index.files[i].path = SumsPath
           Hopped == /\ PathGenuine(c, "release-transition", "release-chain")
                     /\ \A i \in DOMAIN Hops(c) : Hops(c)[i].payload.scope = Release
                     /\ c.mode = "chained" => c.chain.scope = Release
<1>1. (\A x \in c.pin : CheckExpectedIndexDigest(c.index, x)) <=> c.pin \subseteq {c.index}
  BY DEF CheckExpectedIndexDigest
<1>2. ParseIndex(c.index) <=> Shape
  <2>1. CASE c.index.kind # "index"
    BY <2>1 DEF ParseIndex
  <2>2. CASE c.index.kind = "index"
    <3>1. n \in Nat /\ DOMAIN files = 1..n /\ \A i \in 1..n : files[i].path \in Nat
      BY <2>2 DEF IsList
    <3>2. (\A i \in 1..(n - 1) : files[i].path < files[i + 1].path) <=>
            \A i, j \in DOMAIN files : i < j => files[i].path < files[j].path
      <4>1. \A i \in 1..n : f[i] \in Nat /\ f[i] = files[i].path
        BY <3>1
      <4>2. \A i \in 1..(n - 1) : i \in 1..n /\ i + 1 \in 1..n /\ i < i + 1
        BY <3>1
      <4> HIDE DEF f, n, files
      <4>3. (\A i \in 1..(n - 1) : f[i] < f[i + 1]) => \A i, j \in 1..n : i < j => f[i] < f[j]
        BY <3>1, <4>1, Rising
      <4> QED  BY <3>1, <4>1, <4>2, <4>3
    <3>3. (\E i \in DOMAIN files : files[i].path = SumsPath) => (n \in 1..FileLimit <=> n <= FileLimit)
      BY <3>1, FileBound
    <3> QED  BY <2>2, <3>2, <3>3 DEF ParseIndex, validateIndex
  <2> QED  BY <2>1, <2>2
<1>3. AuthenticateSignedIndex(c.index, c.envelope, c.signer, c.minimumRelease) <=>
        /\ validGeneration(c.minimumRelease) /\ ParseIndex(c.index)
        /\ SignedBy(c.envelope, "index", c.signer, "index") /\ c.envelope.payload = c.index
  <2>1. ParseIndex(c.index) => c.index.kind = "index"
    BY DEF ParseIndex
  <2> QED  BY <2>1 DEF AuthenticateSignedIndex, parseCanonicalSPKI, authenticateEnvelope, authentic, parsePublicKey, SignedBy
<1>4. releaseRotation(c) <=> Hopped
  <2>1. CASE c.mode = "direct"
    BY <2>1, DirectPath DEF releaseRotation
  <2>2. CASE c.mode = "rotated"
    <3>1. Hops(c) = <<c.transition>>
      BY <2>2, RotatedPath
    <3>2. (\A i \in DOMAIN Hops(c) : Hops(c)[i].payload.scope = Release) <=> c.transition.payload.scope = Release
      BY <3>1
    <3> QED  BY <2>2, <3>2, RotatedPath, ReleaseTransitionMeaning DEF releaseRotation
  <2>3. CASE c.mode = "chained"
    <3>1. CASE c.chain.kind = "release-chain"
      BY <2>3, <3>1, ReleaseChainVerifies DEF releaseRotation
    <3>2. CASE c.chain.kind # "release-chain"
      BY <2>3, <3>2 DEF PathGenuine, releaseRotation, VerifyAuthorityTransitionChain
    <3> QED  BY <3>1, <3>2
  <2> QED  BY <2>1, <2>2, <2>3
<1>5. ReleaseAuthorityGenuine(c) <=>
        /\ Shape /\ validGeneration(c.minimumRelease)
        /\ SignedBy(c.envelope, "index", c.signer, "index") /\ c.envelope.payload = c.index
        /\ Hopped
  BY DEF ReleaseAuthorityGenuine, validGeneration
<1> HIDE DEF Shape, Hopped
<1> QED  BY <1>1, <1>2, <1>3, <1>4, <1>5 DEF IndexOK

\* What the decoders and the flags give.
LEMMA CommandFacts ==
    ASSUME NEW s \in Scripts, NEW i \in DOMAIN s.commands, NEW c, c = s.commands[i], c.op \in Verifying
    PROVE  /\ c.op = "verify-attestation" =>
                /\ c.mode \in {"none", "key", "policy-v1"} \cup SignedModes
                /\ DecodedBundle(c.bundle) /\ AtMostOne(c.policyPin)
           /\ c.op = "verify-release-index" =>
                /\ c.mode \in {"direct", "rotated", "chained"}
                /\ c.index.kind = "index" =>
                     IsList(c.index.files) /\ \A k \in DOMAIN c.index.files : c.index.files[k].path \in Nat
           /\ c.minimum \in Nat /\ c.minimumAuthority \in Nat /\ AtMostOne(c.pin)
           /\ PolicyDecoded(IF c.mode = "policy-v1" THEN c.policy ELSE c.policy.payload)
           /\ c.chain.kind \in {"chain", "release-chain"} => IsList(c.chain.hops)
BY ScriptsAssumption DEF Decoded, SignedModes, PolicyDecoded, DecodedKeys

\* Accepting is exactly being genuine, whatever the order of the checks.
LEMMA DocumentsMeaning ==
    ASSUME NEW s \in Scripts, NEW i \in DOMAIN s.commands, NEW c, c = s.commands[i], c.op \in Verifying
    PROVE  /\ DocumentsOK(c) <=> Genuine(c)
           /\ c.op = "verify-attestation" =>
                /\ BundleOK(c) => BundleStands(c.bundle)
                /\ c.mode \in SignedModes => (TrustOf(c) = "ok" <=> AttestationPolicyGenuine(c))
           /\ c.op = "verify-release-index" =>
                /\ (c.mode # "direct" /\ IndexOK(c)) => ReleaseAuthorityGenuine(c)
                /\ (IndexOK(c) /\ PolicyOK(c)) => ReleasePolicyGenuine(c)
<1>1. CASE c.op = "verify-attestation"
  <2>1. /\ c.mode \in {"none", "key", "policy-v1"} \cup SignedModes
        /\ DecodedBundle(c.bundle) /\ AtMostOne(c.policyPin) /\ AtMostOne(c.pin)
        /\ c.minimum \in Nat /\ c.minimumAuthority \in Nat
        /\ PolicyDecoded(IF c.mode = "policy-v1" THEN c.policy ELSE c.policy.payload)
        /\ c.chain.kind = "chain" => IsList(c.chain.hops)
    BY <1>1, CommandFacts
  <2>2. Verify(c.bundle) <=> BundleStands(c.bundle)
    BY <2>1, VerifiedStands
  <2>3. CheckExpectedBundleDigest(c.bundle, c.pin) <=> c.pin \subseteq {c.bundle}
    BY <2>1 DEF CheckExpectedBundleDigest, AtMostOne
  <2>4. c.mode \in SignedModes => TrustOf(c) # "trusted" /\ (TrustOf(c) = "ok" <=> AttestationPolicyGenuine(c))
    <3> SUFFICES ASSUME c.mode \in SignedModes
                 PROVE TrustOf(c) # "trusted" /\ (TrustOf(c) = "ok" <=> AttestationPolicyGenuine(c))
      OBVIOUS
    <3>1. PolicyDecoded(c.policy.payload)
      BY <2>1 DEF SignedModes
    <3> QED  BY <2>1, <3>1, TrustMeaning
  <2> DEFINE Trusts == TrustOf(c) = "trusted" \/ (TrustOf(c) = "ok" /\ SignerTrusted(c))
  <2>5. DocumentsOK(c) <=> BundleOK(c) /\ Trusts
    BY <1>1 DEF DocumentsOK
  <2>6. CASE c.mode = "none"
    <3>1. Genuine(c) <=> FALSE
      BY <1>1, <2>6 DEF Genuine
    <3>2. TrustOf(c) = "none"
      BY <2>6 DEF TrustOf
    <3> QED  BY <1>1, <2>2, <2>4, <2>5, <3>1, <3>2 DEF BundleOK
  <2>7. CASE c.mode = "key"
    <3>1. Genuine(c) <=> c.pin \subseteq {c.bundle} /\ BundleStands(c.bundle) /\ c.authority = Signer(c.bundle)
      BY <1>1, <2>7 DEF Genuine
    <3>2. TrustOf(c) = IF parsePublicKey(c.authority) /\ c.authority = Signer(c.bundle) THEN "trusted" ELSE "key-mismatch"
      BY <2>7 DEF TrustOf
    <3>3. Verify(c.bundle) => parsePublicKey(Signer(c.bundle))
      BY DEF Verify
    <3> QED  BY <1>1, <2>2, <2>3, <2>4, <2>5, <3>1, <3>2, <3>3 DEF BundleOK
  <2>8. CASE c.mode = "policy-v1"
    <3>1. Genuine(c) <=> /\ c.pin \subseteq {c.bundle} /\ BundleStands(c.bundle) /\ c.policyPin = {c.policy}
                         /\ c.policy.kind = "policy-v1" /\ KeysInOrder(c.policy.keys)
                         /\ TrustsSigner(c.policy, Signer(c.bundle))
      BY <1>1, <2>8 DEF Genuine
    <3> DEFINE status == EvaluateSignerKeyID(c.policy, Signer(c.bundle))
    <3>2. Verify(c.bundle) =>
            TrustOf(c) = IF ~CheckExpectedTrustPolicyDigest(c.policy, c.policyPin) THEN "digest-mismatch"
                         ELSE IF ~ParseOfflineTrustPolicy(c.policy) THEN "invalid-or-unavailable" ELSE status
      BY <2>8 DEF TrustOf, VerifyWithOfflineTrustPolicy
    <3>3. CheckExpectedTrustPolicyDigest(c.policy, c.policyPin) <=> c.policyPin = {c.policy}
      BY <2>1 DEF CheckExpectedTrustPolicyDigest, AtMostOne
    <3>4. ParseOfflineTrustPolicy(c.policy) <=> c.policy.kind = "policy-v1" /\ KeysInOrder(c.policy.keys)
      <4>1. c.policy.kind = "policy-v1" => DecodedKeys(c.policy.keys)
        BY <2>1, <2>8 DEF PolicyDecoded
      <4> QED  BY <4>1, KeysMeaning DEF ParseOfflineTrustPolicy
    <3>5. ParseOfflineTrustPolicy(c.policy) =>
            /\ status = "trusted" <=> TrustsSigner(c.policy, Signer(c.bundle))
            /\ status # "ok"
      <4> SUFFICES ASSUME ParseOfflineTrustPolicy(c.policy)
                   PROVE  /\ status = "trusted" <=> TrustsSigner(c.policy, Signer(c.bundle))
                          /\ status # "ok"
        OBVIOUS
      <4>1. DecodedKeys(c.policy.keys) /\ KeysInOrder(c.policy.keys)
        BY <2>1, <2>8, <3>4 DEF PolicyDecoded
      <4>2. statusOf(c.policy, Signer(c.bundle)) # "ok"
        <5> DEFINE key == Signer(c.bundle)
                   at == CHOOSE k \in DOMAIN c.policy.keys : c.policy.keys[k].key = key
        <5>1. CASE Listed(c.policy, key)
          <6>1. at \in DOMAIN c.policy.keys /\ statusOf(c.policy, key) = c.policy.keys[at].status
            BY <5>1 DEF Listed, statusOf
          <6> QED  BY <4>1, <6>1 DEF KeysInOrder
        <5>2. CASE ~Listed(c.policy, key)
          BY <5>2 DEF statusOf
        <5> QED  BY <5>1, <5>2
      <4> QED  BY <4>1, <4>2, SignerMeaning DEF EvaluateSignerKeyID
    <3> HIDE DEF status
    <3> QED  BY <1>1, <2>2, <2>3, <2>4, <2>5, <3>1, <3>2, <3>3, <3>4, <3>5 DEF BundleOK
  <2>9. CASE c.mode \in SignedModes
    <3>1. Genuine(c) <=> /\ c.pin \subseteq {c.bundle} /\ BundleStands(c.bundle)
                         /\ AttestationPolicyGenuine(c) /\ TrustsSigner(c.policy.payload, Signer(c.bundle))
      BY <1>1, <2>9 DEF Genuine, SignedModes
    <3>2. AttestationPolicyGenuine(c) => (SignerTrusted(c) <=> TrustsSigner(c.policy.payload, Signer(c.bundle)))
      <4> SUFFICES ASSUME AttestationPolicyGenuine(c)
                   PROVE  SignerTrusted(c) <=> TrustsSigner(c.policy.payload, Signer(c.bundle))
        OBVIOUS
      <4>1. DecodedKeys(c.policy.payload.keys) /\ KeysInOrder(c.policy.payload.keys)
        BY <2>1, <2>9, GenuineKeys DEF SignedModes, AttestationPolicyGenuine
      <4> QED  BY <4>1, SignerMeaning DEF SignerTrusted, VerifySignedOfflineTrustPolicySigner
    <3> QED  BY <1>1, <2>2, <2>3, <2>4, <2>5, <2>9, <3>1, <3>2 DEF BundleOK
  <2> QED  BY <2>1, <2>6, <2>7, <2>8, <2>9
<1>2. CASE c.op = "verify-release-index"
  <2>1. /\ c.mode \in {"direct", "rotated", "chained"}
        /\ c.index.kind = "index" =>
             IsList(c.index.files) /\ \A k \in DOMAIN c.index.files : c.index.files[k].path \in Nat
        /\ c.minimum \in Nat /\ c.minimumAuthority \in Nat /\ AtMostOne(c.pin)
        /\ PolicyDecoded(c.policy.payload)
        /\ c.chain.kind = "release-chain" => IsList(c.chain.hops)
    BY <1>2, CommandFacts
  <2>2. (c.mode = "direct" => c.authority # NoKey) =>
          (IndexOK(c) <=> c.pin \subseteq {c.index} /\ ReleaseAuthorityGenuine(c))
    BY <2>1, IndexMeaning
  <2>3. PolicyOK(c) <=> PolicyGenuine(c, "release-policy") /\ c.policy.payload.scope = Release
    BY <2>1, ReleasePolicyMeaning
  <2>4. PolicyGenuine(c, "release-policy") => c.authority # NoKey
    BY DEF PolicyGenuine, SignedBy
  <2>5. ReleasePolicyGenuine(c) <=> ReleaseAuthorityGenuine(c) /\ PolicyOK(c)
    BY <2>3 DEF ReleasePolicyGenuine
  <2>6. PolicyOK(c) => (IndexOK(c) <=> c.pin \subseteq {c.index} /\ ReleaseAuthorityGenuine(c))
    BY <2>2, <2>3, <2>4
  <2>7. ReleaseAuthorityGenuine(c) /\ PolicyOK(c) =>
          (Authorized(c) <=> TrustsSigner(c.policy.payload, c.signer) /\ c.index.generation >= c.minimumRelease)
    <3> SUFFICES ASSUME ReleaseAuthorityGenuine(c), PolicyOK(c)
                 PROVE  Authorized(c) <=> TrustsSigner(c.policy.payload, c.signer) /\ c.index.generation >= c.minimumRelease
      OBVIOUS
    <3>1. DecodedKeys(c.policy.payload.keys) /\ KeysInOrder(c.policy.payload.keys)
      BY <2>1, <2>3, GenuineKeys
    <3>2. c.policy.payload.scope = c.index.scope
      BY <2>3 DEF ReleaseAuthorityGenuine
    <3>3. TrustsSigner(c.policy.payload, c.signer) => c.signer # c.authority
      BY <2>3 DEF PolicyGenuine, TrustsSigner
    <3> QED  BY <3>1, <3>2, <3>3, SignerMeaning DEF Authorized, AuthorizeSignedIndex
  <2>8. Genuine(c) <=> /\ c.pin \subseteq {c.index} /\ ReleasePolicyGenuine(c)
                       /\ TrustsSigner(c.policy.payload, c.signer) /\ c.index.generation >= c.minimumRelease
    BY <1>2 DEF Genuine
  <2>9. DocumentsOK(c) <=> IndexOK(c) /\ PolicyOK(c) /\ Authorized(c)
    BY <1>2 DEF DocumentsOK
  <2> QED  BY <1>2, <2>2, <2>5, <2>6, <2>7, <2>8, <2>9
<1> QED  BY <1>1, <1>2 DEF Verifying

-----------------------------------------------------------------------------
(* What the issuing commands make. *)

MadeBy(p) ==
    /\ pc[p] # "done" => result[p].made = {}
    /\ \A made \in result[p].made : VerifierAccepts(Command(p), made)

MadeInv == \A p \in Procs : MadeBy(p)

\* A step that makes nothing: it goes on, or it ends in one of the other ways.
MakesNothing(p) ==
    \/ UNCHANGED <<pc, result>>
    \/ \E s : Goto(p, s)
    \/ \E reason : Fail(p, reason) \/ Reject(p, reason) \/ Unusable(p, reason)
    \/ \E answer, about : Conclude(p, answer, about)
    \/ Accept(p)
    \/ Finish(p, Accepted(p))
    \/ \E about : Finish(p, [Accepted(p) EXCEPT !.about = about])
    \/ Finish(p, [Running EXCEPT !.status = "killed"])

Makes(p, made) == \E s, r : Later(p, s, r) /\ r.made = made /\ (s # "done" => made = {})

LEMMA NothingMade ==
    ASSUME Types, NEW p \in Procs, MakesNothing(p), result[p].made = {}
    PROVE  UNCHANGED <<pc, result>> \/ Makes(p, {})
<1>1. ASSUME NEW s, Goto(p, s) PROVE Makes(p, {})
  BY <1>1, GotoFacts DEF Makes
<1>2. ASSUME NEW reason, Fail(p, reason) \/ Reject(p, reason) \/ Unusable(p, reason) PROVE Makes(p, {})
  BY <1>2, FailFacts, RejectFacts, UnusableFacts DEF Makes
<1>3. ASSUME NEW answer, NEW about, Conclude(p, answer, about) PROVE Makes(p, {})
  BY <1>3, ConcludeFacts DEF Makes
<1>4. CASE Accept(p)
  BY <1>4, AcceptFacts DEF Makes
<1>5. CASE Finish(p, Accepted(p))
  BY <1>5, AcceptedFacts, FinishFacts DEF Makes
<1>6. ASSUME NEW about, Finish(p, [Accepted(p) EXCEPT !.about = about]) PROVE Makes(p, {})
  <2> DEFINE o == [Accepted(p) EXCEPT !.about = about]
  <2>1. DOMAIN o = Fields /\ o.made = {}
    BY AcceptedFacts DEF Fields
  <2>2. Finish(p, o)
    BY <1>6
  <2> HIDE DEF o
  <2> QED  BY <2>1, <2>2, FinishFacts DEF Makes
<1>7. CASE Finish(p, [Running EXCEPT !.status = "killed"])
  BY <1>7, KilledFacts DEF Makes
<1> QED  BY <1>1, <1>2, <1>3, <1>4, <1>5, <1>6, <1>7 DEF MakesNothing

LEMMA MakingKeepsMade ==
    ASSUME Types, MadeInv, NEW p \in Procs, NEW set, Makes(p, set), script' = script,
           \A made \in set : VerifierAccepts(Command(p), made)
    PROVE  MadeInv'
<1>1. PICK s, r : Later(p, s, r) /\ r.made = set /\ (s # "done" => set = {})
  BY DEF Makes
<1>2. Procs' = Procs /\ \A q : Command(q)' = Command(q)
  BY DEF Procs, Command
<1>3. pc'[p] = s /\ result'[p] = r /\ \A q \in Procs : q # p => pc'[q] = pc[q] /\ result'[q] = result[q]
  BY <1>1 DEF Later, Types
<1>4. ASSUME NEW q \in Procs PROVE MadeBy(q)'
  <2>1. CASE q = p
    BY <1>1, <1>2, <1>3, <2>1 DEF MadeBy, VerifierAccepts
  <2>2. CASE q # p
    BY <1>2, <1>3, <2>2 DEF MadeBy, MadeInv, VerifierAccepts
  <2> QED  BY <2>1, <2>2
<1> QED  BY <1>2, <1>4 DEF MadeInv

\* The steps that make nothing.
LEMMA DocumentStepsMakeNothing ==
    ASSUME NEW p \in Procs,
           \/ Kill(p) \/ VerifyAttestation(p) \/ ObservePolicyState(p) \/ VerifySigner(p) \/ Attest(p)
           \/ VerifyReleaseIndex(p) \/ ObserveAuthorityState(p) \/ ObserveReleasePolicy(p) \/ AuthorizeIndex(p)
           \/ ScanList(p) \/ ScanFile(p) \/ ScanEnd(p) \/ ObserveIndexState(p) \/ SignReleaseIndex(p)
    PROVE  MakesNothing(p)
<1>1. CASE Kill(p)
  BY <1>1 DEF Kill, MakesNothing
<1>2. CASE VerifyAttestation(p)
  BY <1>2 DEF VerifyAttestation, DecideSigner, MakesNothing
<1>3. CASE ObservePolicyState(p)
  BY <1>3 DEF ObservePolicyState, MakesNothing
<1>4. CASE VerifySigner(p)
  BY <1>4 DEF VerifySigner, DecideSigner, MakesNothing
<1>5. CASE Attest(p)
  BY <1>5 DEF Attest, MakesNothing
<1>6. CASE VerifyReleaseIndex(p)
  BY <1>6 DEF VerifyReleaseIndex, ReleasePolicy, MakesNothing
<1>7. CASE ObserveAuthorityState(p)
  BY <1>7 DEF ObserveAuthorityState, ObserveRelease, ReleasePolicy, MakesNothing
<1>8. CASE ObserveReleasePolicy(p)
  BY <1>8 DEF ObserveReleasePolicy, ObserveRelease, MakesNothing
<1>9. CASE AuthorizeIndex(p)
  BY <1>9 DEF AuthorizeIndex, MakesNothing
<1>10. CASE ScanList(p)
  BY <1>10 DEF ScanList, MakesNothing
<1>11. CASE ScanFile(p)
  BY <1>11 DEF ScanFile, MakesNothing
<1>12. CASE ScanEnd(p)
  BY <1>12 DEF ScanEnd, MakesNothing
<1>13. CASE ObserveIndexState(p)
  BY <1>13 DEF ObserveIndexState, ObserveRelease, MakesNothing
<1>14. CASE SignReleaseIndex(p)
  BY <1>14 DEF SignReleaseIndex, MakesNothing
<1> QED  BY <1>1, <1>2, <1>3, <1>4, <1>5, <1>6, <1>7, <1>8, <1>9, <1>10, <1>11, <1>12, <1>13, <1>14

LEMMA ComparingStepsMakeNothing ==
    ASSUME Inv, NEW p \in Procs,
           \/ ResolveSource(p) \/ ListTree(p) \/ VisitFile(p) \/ EndWalk(p)
           \/ ReadPlan(p) \/ ReadDerivedInput(p) \/ ProbeFreshnessRunner(p)
    PROVE  MakesNothing(p)
<1>1. CASE ResolveSource(p)
  BY <1>1 DEF ResolveSource, MakesNothing
<1>2. CASE ListTree(p)
  BY <1>2 DEF ListTree, MakesNothing
<1>3. CASE VisitFile(p)
  BY <1>3 DEF VisitFile, MakesNothing
<1>4. CASE EndWalk(p)
  <2>1. Purpose(p) \in {"attest", "freshness", "sbom"}
    BY DEF Purpose
  <2>2. ASSUME NEW snapshot, UseSecond(p, snapshot) PROVE MakesNothing(p)
    BY <2>1, <2>2 DEF UseSecond, MakesNothing
  <2>3. ASSUME NEW snapshot, UseThird(p, snapshot) PROVE MakesNothing(p)
    BY <2>1, <2>3 DEF UseThird, MakesNothing
  <2>4. \/ Goto(p, "list") \/ Unusable(p, "source-unstable")
        \/ \E snapshot : UseSecond(p, snapshot) \/ UseThird(p, snapshot)
    BY <1>4 DEF EndWalk
  <2> QED  BY <2>2, <2>3, <2>4 DEF MakesNothing
<1>5. CASE ReadPlan(p)
  BY <1>5 DEF ReadPlan, freshnessUnknown, MakesNothing
<1>6. CASE ReadDerivedInput(p)
  BY <1>6 DEF ReadDerivedInput, MakesNothing
<1>7. CASE ProbeFreshnessRunner(p)
  BY <1>7 DEF ProbeFreshnessRunner, freshnessUnknown, MakesNothing
<1> QED  BY <1>1, <1>2, <1>3, <1>4, <1>5, <1>6, <1>7

LEMMA BuildBundleMakes ==
    ASSUME Inv, NEW p \in Procs, BuildBundle(p)
    PROVE  MakesNothing(p) \/ \E set : Makes(p, set) /\ \A made \in set : VerifierAccepts(Command(p), made)
<1> DEFINE c == Command(p)
           derived == Derivation(snaps[p][3])
           built == IF c.evidence = "derived"
                    THEN BuildWithDerivedSPDX(c.result, derived.sbom, derived.provenance, c.key)
                    ELSE BuildWithSPDX(c.result, c.sbom, c.key)
<1>1. c.op = "attest"
  BY DEF BuildBundle, Inv, Local, RightStep
<1>2. c.result.wantsSBOM \in BOOLEAN /\ AtMostOne(c.sbom)
  BY <1>1, ScriptsAssumption DEF Inv, Types, Procs, Command
<1>3. Fail(p, "signing") \/ \E about :
        Finish(p, [result[p] EXCEPT !.status = "ok", !.made = built, !.about = about])
  BY DEF BuildBundle
<1>4. \A made \in built : Verify(made)
  <2>1. CASE c.evidence = "derived"
    BY <1>2, <2>1, BuiltDerivedVerifies
  <2>2. CASE c.evidence # "derived"
    BY <1>2, <2>2, BuiltVerifies
  <2> QED  BY <2>1, <2>2
<1>5. \A made \in built : VerifierAccepts(c, made)
  BY <1>1, <1>4 DEF VerifierAccepts
<1> HIDE DEF built, c
<1>6. CASE Fail(p, "signing")
  BY <1>6 DEF MakesNothing
<1>7. ASSUME NEW about, Finish(p, [result[p] EXCEPT !.status = "ok", !.made = built, !.about = about])
      PROVE  Makes(p, built)
  BY <1>7, MadeFacts DEF Inv, Makes
<1> QED  BY <1>3, <1>5, <1>6, <1>7 DEF c

LEMMA SignedIndexStands ==
    ASSUME NEW index, NEW key, NEW generation, validGeneration(generation), NEW made \in SignIndex(index, key)
    PROVE  AuthenticateSignedIndex(made.payload, made, key, generation)
<1>1. ParseIndex(index) /\ key # NoKey /\ made = Signed("index", key, index)
  BY DEF SignIndex, parseCanonicalSPKI, signPayload
<1>2. made.type = "index" /\ made.keyid = key /\ made.signer = key /\ made.payload = index
  BY <1>1 DEF Signed
<1> QED  BY <1>1, <1>2 DEF AuthenticateSignedIndex, authenticateEnvelope, authentic, parseCanonicalSPKI, parsePublicKey

LEMMA InspectedArtifactsMakes ==
    ASSUME Inv, NEW p \in Procs, InspectedArtifacts(p)
    PROVE  MakesNothing(p) \/ \E set : Makes(p, set) /\ \A made \in set : VerifierAccepts(Command(p), made)
<1> DEFINE c == Command(p)
           built == BuildIndex(snaps[p][2], c.generation)
           index == CHOOSE i \in built : TRUE
           about == AboutArtifacts(p)
<1>1. CASE c.op = "sign-release-index" /\ built # {} /\ names(Tree) = pathsOf(snaps[p][2]) /\ parseCanonicalSPKI(c.key)
  <2>1. Finish(p, [result[p] EXCEPT !.status = "ok", !.about = about, !.made = SignIndex(index, c.key)])
    BY <1>1 DEF InspectedArtifacts
  <2>2. index \in built
    BY <1>1
  <2>3. validGeneration(c.generation)
    BY <2>2 DEF BuildIndex
  <2>4. \A made \in SignIndex(index, c.key) :
          AuthenticateSignedIndex(made.payload, made, c.key, c.generation)
    BY <2>3, SignedIndexStands
  <2>5. \A made \in SignIndex(index, c.key) : VerifierAccepts(c, made)
    BY <1>1, <2>4 DEF VerifierAccepts
  <2>6. Makes(p, SignIndex(index, c.key))
    <3> DEFINE set == SignIndex(index, c.key)
               o == [result[p] EXCEPT !.status = "ok", !.about = about, !.made = set]
    <3> SUFFICES Makes(p, set)
      OBVIOUS
    <3>1. Finish(p, o)
      BY <2>1
    <3> HIDE DEF about, set
    <3>2. DOMAIN o = Fields /\ o.made = set
      BY DEF Inv, Types, Fields
    <3> HIDE DEF o
    <3> QED  BY <3>1, <3>2, FinishFacts DEF Makes
  <2> QED  BY <2>5, <2>6
<1>2. CASE ~(c.op = "sign-release-index" /\ built # {} /\ names(Tree) = pathsOf(snaps[p][2]) /\ parseCanonicalSPKI(c.key))
  BY <1>2 DEF InspectedArtifacts, MakesNothing
<1> QED  BY <1>1, <1>2

\* A chain that was assembled stands with its own last generation as the floor.
LEMMA AssembledChainStands ==
    ASSUME NEW hops, IsList(hops), NEW root
    PROVE  /\ \A chain \in BuildOfflineTrustPolicyAuthorityTransitionChain(hops, root) :
                VerifyOfflineTrustPolicyAuthorityTransitionChain(chain, root, Last(hops).next, LastHop(chain))
           /\ \A chain \in BuildAuthorityTransitionChain(hops, root) :
                VerifyAuthorityTransitionChain(chain, root, Last(hops).next, LastHop(chain))
<1> DEFINE n == Len(hops)
<1>1. ASSUME NEW chain, chain.hops = hops, n \in MinHops..MaxHops,
             \A i \in DOMAIN hops : validGeneration(hops[i].envelope.payload.generation)
      PROVE  validGeneration(LastHop(chain)) /\ LastHop(chain) = HopGeneration(chain, n) /\ LastHop(chain) >= LastHop(chain)
  <2>1. n \in DOMAIN hops
    BY <1>1, DocumentBounds DEF IsList, MinHops
  <2>2. validGeneration(LastHop(chain)) /\ LastHop(chain) = HopGeneration(chain, n)
    BY <1>1, <2>1 DEF LastHop, HopGeneration
  <2> QED  BY <2>2, GenerationsAreNumbers
<1>2. Last(hops) = hops[n]
  BY DEF Last
<1>3. ASSUME NEW chain \in BuildOfflineTrustPolicyAuthorityTransitionChain(hops, root)
      PROVE  VerifyOfflineTrustPolicyAuthorityTransitionChain(chain, root, Last(hops).next, LastHop(chain))
  <2>1. chain.hops = hops /\ n \in MinHops..MaxHops /\ VerifyOfflineTrustPolicyAuthorityTransitionChain(chain, root, hops[n].next, 1)
    BY <1>3 DEF BuildOfflineTrustPolicyAuthorityTransitionChain
  <2>2. \A i \in DOMAIN hops : validGeneration(hops[i].envelope.payload.generation)
    BY <2>1 DEF VerifyOfflineTrustPolicyAuthorityTransitionChain, VerifyOfflineTrustPolicyAuthorityTransition,
       ParseOfflineTrustPolicyAuthorityTransitionPayload, validateOfflineTrustPolicyAuthorityTransition
  <2>3. validGeneration(LastHop(chain)) /\ LastHop(chain) = HopGeneration(chain, n) /\ LastHop(chain) >= LastHop(chain)
    BY <1>1, <2>1, <2>2
  <2> QED  BY <1>2, <2>1, <2>3 DEF VerifyOfflineTrustPolicyAuthorityTransitionChain
<1>4. ASSUME NEW chain \in BuildAuthorityTransitionChain(hops, root)
      PROVE  VerifyAuthorityTransitionChain(chain, root, Last(hops).next, LastHop(chain))
  <2>1. chain.hops = hops /\ n \in MinHops..MaxHops /\ VerifyAuthorityTransitionChain(chain, root, hops[n].next, 1)
    BY <1>4 DEF BuildAuthorityTransitionChain
  <2>2. \A i \in DOMAIN hops : validGeneration(hops[i].envelope.payload.generation)
    BY <2>1 DEF VerifyAuthorityTransitionChain, VerifyAuthorityTransition,
       ParseAuthorityTransitionPayload, validateAuthorityTransition
  <2>3. validGeneration(LastHop(chain)) /\ LastHop(chain) = HopGeneration(chain, n) /\ LastHop(chain) >= LastHop(chain)
    BY <1>1, <2>1, <2>2
  <2> QED  BY <1>2, <2>1, <2>3 DEF VerifyAuthorityTransitionChain
<1> QED  BY <1>3, <1>4

LEMMA IssuedStands ==
    ASSUME NEW c, c.op = "issue", c.what \in Issuable, IsList(c.hops)
    PROVE  \A made \in Issued(c) : VerifierAccepts(c, made)
<1>1. CASE c.what = "policy"
  BY <1>1 DEF Issued, VerifierAccepts, runSignOfflineTrustPolicy, SignOfflineTrustPolicy
<1>2. CASE c.what = "transition"
  BY <1>2 DEF Issued, VerifierAccepts, runSignOfflineTrustPolicyAuthorityTransition,
     SignOfflineTrustPolicyAuthorityTransition
<1>3. CASE c.what = "chain"
  BY <1>3, AssembledChainStands DEF Issued, VerifierAccepts, runAssembleOfflineTrustPolicyAuthorityChain
<1>4. CASE c.what = "release-policy"
  <2>1. ASSUME NEW made \in Issued(c) PROVE VerifyPolicy(made, c.key, c.payload.generation)
    <3>1. ParsePolicyPayload(c.payload) /\ made \in SignPolicyWithAuthority(c.payload, c.key)
      BY <1>4, <2>1 DEF Issued, runSignReleasePolicy
    <3>2. /\ made = Signed("release-policy", c.key, c.payload) /\ parseCanonicalSPKI(c.key)
          /\ ~Listed(c.payload, c.key) /\ validatePolicy(c.payload)
      BY <3>1 DEF SignPolicyWithAuthority, signPayload
    <3>3. made.type = "release-policy" /\ made.keyid = c.key /\ made.signer = c.key /\ made.payload = c.payload
      BY <3>2 DEF Signed
    <3>4. validGeneration(c.payload.generation) /\ c.payload.scope = Release
      BY <3>2 DEF validatePolicy
    <3>5. c.payload.generation >= c.payload.generation
      BY <3>4, GenerationsAreNumbers
    <3> QED  BY <3>1, <3>2, <3>3, <3>4, <3>5 DEF VerifyPolicy, authenticateEnvelope, authentic, parsePublicKey, parseCanonicalSPKI
  <2> QED  BY <1>4, <2>1 DEF VerifierAccepts
<1>5. CASE c.what = "release-transition"
  BY <1>5 DEF Issued, VerifierAccepts, runSignReleaseAuthorityTransition, SignAuthorityTransition
<1>6. CASE c.what = "release-chain"
  BY <1>6, AssembledChainStands DEF Issued, VerifierAccepts, runAssembleReleaseAuthorityChain
<1> QED  BY <1>1, <1>2, <1>3, <1>4, <1>5, <1>6 DEF Issuable

LEMMA IssueMakes ==
    ASSUME Inv, NEW p \in Procs, Issue(p)
    PROVE  MakesNothing(p) \/ \E set : Makes(p, set) /\ \A made \in set : VerifierAccepts(Command(p), made)
<1>1. Command(p).op = "issue"
  BY DEF Issue
<1>2. Command(p).what \in Issuable /\ IsList(Command(p).hops)
  BY <1>1, ScriptsAssumption DEF Inv, Types, Procs, Command
<1>3. CASE Fail(p, "signing")
  BY <1>3 DEF MakesNothing
<1>4. CASE Finish(p, [result[p] EXCEPT !.status = "ok", !.made = Issued(Command(p))])
  <2> DEFINE set == Issued(Command(p))
             o == [result[p] EXCEPT !.status = "ok", !.made = set]
  <2>1. DOMAIN o = Fields /\ o.made = set
    BY DEF Inv, Types, Fields
  <2>2. Finish(p, o)
    BY <1>4
  <2>3. \A made \in set : VerifierAccepts(Command(p), made)
    BY <1>1, <1>2, IssuedStands
  <2> HIDE DEF o, set
  <2>4. Makes(p, set)
    BY <2>1, <2>2, FinishFacts DEF Makes
  <2> QED  BY <2>3, <2>4
<1> QED  BY <1>3, <1>4 DEF Issue

LEMMA NextMade ==
    ASSUME Inv, MadeInv, [Next]_vars
    PROVE  MadeInv'
<1>1. ASSUME UNCHANGED <<script, pc, result>> PROVE MadeInv'
  BY <1>1 DEF MadeInv, MadeBy, Procs, Command, VerifierAccepts
<1>2. CASE EditTree \/ UNCHANGED vars
  BY <1>1, <1>2 DEF EditTree, vars
<1>3. ASSUME NEW p \in Procs, Step(p) PROVE MadeInv'
  <2>1. script' = script
    BY <1>3 DEF Step, Begin, Kill, VerifyAttestation, ObservePolicyState, VerifySigner, ResolveSource, ListTree,
       VisitFile, EndWalk, ReadPlan, ReadDerivedInput, ProbeFreshnessRunner, Attest, BuildBundle,
       VerifyReleaseIndex, ObserveAuthorityState, ObserveReleasePolicy, AuthorizeIndex, ScanList, ScanFile,
       ScanEnd, InspectedArtifacts, ObserveIndexState, SignReleaseIndex, Issue
  <2>2. pc[p] # "done"
    BY <1>3 DEF Step, Begin, Kill, VerifyAttestation, ObservePolicyState, VerifySigner, ResolveSource, ListTree,
       VisitFile, EndWalk, ReadPlan, ReadDerivedInput, ProbeFreshnessRunner, Attest, BuildBundle,
       VerifyReleaseIndex, ObserveAuthorityState, ObserveReleasePolicy, AuthorizeIndex, ScanList, ScanFile,
       ScanEnd, InspectedArtifacts, ObserveIndexState, SignReleaseIndex, Issue
  <2>3. result[p].made = {} /\ Types
    BY <2>2 DEF MadeInv, MadeBy, Inv
  <2>4. CASE MakesNothing(p)
    BY <1>1, <2>1, <2>3, <2>4, NothingMade, MakingKeepsMade
  <2>5. CASE \E set : Makes(p, set) /\ \A made \in set : VerifierAccepts(Command(p), made)
    BY <2>1, <2>3, <2>5, MakingKeepsMade
  <2>6. Begin(p) => MakesNothing(p)
    BY DEF Begin, MakesNothing
  <2> QED  BY <1>3, <2>4, <2>5, <2>6, DocumentStepsMakeNothing, ComparingStepsMakeNothing, BuildBundleMakes,
              InspectedArtifactsMakes, IssueMakes DEF Step
<1> QED  BY <1>2, <1>3 DEF Next

LEMMA InvGivesJustified ==
    ASSUME Inv, MadeInv
    PROVE  AcceptedIsJustified
<1> SUFFICES ASSUME NEW p \in Procs, pc[p] = "done", result[p].status # "killed"
             PROVE  /\ Command(p).op \in Verifying =>
                         /\ result[p].trust = "accepted" => Genuine(Command(p))
                         /\ Genuine(Command(p)) => \/ result[p].trust = "accepted"
                                                   \/ result[p].reason \in StateReasons \cup {"artifacts"}
                    /\ \A made \in result[p].made : VerifierAccepts(Command(p), made)
  BY DEF AcceptedIsJustified, Verifying
<1>1. Command(p).op \in Verifying => (DocumentsOK(Command(p)) <=> Genuine(Command(p)))
  BY DocumentsMeaning DEF Inv, Types, Procs, Command
<1>2. Outcome(Command(p), "done", result[p])
  BY DEF Inv, Local
<1> QED  BY <1>1, <1>2 DEF MadeInv, MadeBy, Outcome

\* The verifying commands accept exactly the documents that are genuine, unless
\* the durable state or the artifacts say no, and every document an issuing
\* command writes is one its verifier accepts.
THEOREM AcceptanceIsJustified == Spec => []AcceptedIsJustified
<1>1. Init => Inv /\ MadeInv
  <2>1. Init => MadeInv
    BY DEF Init, MadeInv, MadeBy, Running
  <2> QED  BY <2>1, InitInv
<1>2. Inv /\ MadeInv /\ [Next]_vars => (Inv /\ MadeInv)'
  BY NextInv, NextMade
<1>3. Inv /\ MadeInv => AcceptedIsJustified
  BY InvGivesJustified
<1> QED  BY <1>1, <1>2, <1>3, PTL DEF Spec

-----------------------------------------------------------------------------
(* What the directory has been, and what a scan of it has seen. *)

IsSeq(s) == Len(s) \in Nat /\ s = [i \in 1..Len(s) |-> s[i]]

\* Contents are never left twice: what a path has now it has had ever since it
\* was written.
History(T) ==
    /\ IsSeq(T) /\ Len(T) >= 1
    /\ \A i \in 1..Len(T) : DOMAIN T[i] = Paths
    /\ \A i \in 1..Len(T) : \A q \in Paths :
         T[i][q].kind # "absent" => T[i][q].edit \in Nat /\ T[i][q].edit < i
    /\ \A j \in 1..Len(T) : \A i \in 1..j : \A q \in Paths :
         (T[j][q].kind # "absent" /\ T[j][q].edit < i) => T[i][q] = T[j][q]

\* The entry is of a content written before moment m ...
ReadBefore(e, m) == e.path \in Paths /\ e.content.edit \in Nat /\ e.content.edit < m

\* ... and it was read at moment m or later.
ScannedSince(T, e, m) ==
    /\ e.path \in Paths
    /\ \E b \in m..Len(T) : /\ T[b][e.path].kind = "file"
                            /\ e = [path |-> e.path, content |-> contentOf(T[b][e.path])]

\* A process that has not looked at the directory yet.
BlankSteps == {"idle", "start", "policy-state", "signer", "authority-state", "authorize"}

Scanning == {"scan", "scanning", "names", "index-state"}
Scanned == {"names", "index-state"}

\* The first scan ended at a moment when the names were the listed ones; the
\* second reads everything after it.
ScanAt(T, s, taken, w, from, files) ==
    s \in Scanning =>
    /\ IsSeq(taken)
    /\ s \notin Scanned => Len(taken) <= 1
    /\ s \in Scanned => Len(taken) = 2 /\ taken[2] = taken[1]
    /\ s = "scanning" => /\ DOMAIN w = {"todo", "stat", "entries", "ok"}
                         /\ w.todo \in Seq(Paths) /\ IsSeq(w.entries)
                         /\ \A k \in DOMAIN w.entries : ScannedSince(T, w.entries[k], from)
    /\ Len(taken) >= 1 =>
         \E m \in from..Len(T) :
           /\ IsSeq(taken[1]) /\ names(T[m]) = pathsOf(taken[1])
           /\ \A k \in DOMAIN taken[1] : ReadBefore(taken[1][k], m)
           /\ s = "scanning" => \A k \in DOMAIN w.entries : ScannedSince(T, w.entries[k], m)
           /\ s \in Scanned => \A k \in DOMAIN taken[2] : ScannedSince(T, taken[2][k], m)
    /\ s = "index-state" => taken[2] = files

ScanOf(p) == ScanAt(trees, pc[p], snaps[p], walk[p], since[p], Command(p).index.files)

RecordBacked(p, r) ==
    /\ pc[p] # "idle" /\ Earns(Command(p), r)
    /\ r.store = "release-index" => ArtifactsExisted(p, Command(p).index.files)

TreeInv ==
    /\ History(trees)
    /\ DOMAIN snaps = Procs /\ DOMAIN walk = Procs /\ DOMAIN since = Procs
    /\ \A p \in Procs : /\ pc[p] # "idle" => since[p] \in 1..Len(trees)
                        /\ pc[p] \in BlankSteps => snaps[p] = <<>>
                        /\ ScanOf(p)
    /\ \A r \in reg : \E p \in Procs : RecordBacked(p, r)

Increasing(f, S) ==
    f \in [1..Cardinality(S) -> S] /\ \A i, j \in DOMAIN f : i < j => f[i] < f[j]

\* Every finite set of numbers can be listed in order.
LEMMA OrderedListing ==
    ASSUME NEW S \in SUBSET Nat, IsFiniteSet(S)
    PROVE  \E f : Increasing(f, S)
<1> DEFINE Listing(T) == \E f : Increasing(f, T)
           Sets(n) == {T \in SUBSET Nat : IsFiniteSet(T) /\ Cardinality(T) = n}
           B == {n \in Nat : \E T \in Sets(n) : ~Listing(T)}
           less == {ss \in Nat \X Nat : ss[1] < ss[2]}
<1>1. IsWellFoundedOn(less, Nat)
  BY NatLessThanWellFounded DEF OpToRel
<1>2. SUFFICES ASSUME ~Listing(S) PROVE FALSE
  OBVIOUS
<1>3. Cardinality(S) \in B /\ B \subseteq Nat
  BY <1>2, FS_CardinalityType
<1>4. PICK m \in B : \A k \in B : ~ (<<k, m>> \in less)
  <2> HIDE DEF B, less
  <2> QED  BY <1>1, <1>3, WFMin
<1>5. PICK T \in Sets(m) : ~Listing(T)
  BY <1>4
<1>6. m \in Nat /\ T \subseteq Nat /\ IsFiniteSet(T) /\ Cardinality(T) = m
  BY <1>4, <1>5
<1>7. T # {}
  <2> SUFFICES ASSUME T = {} PROVE FALSE
    OBVIOUS
  <2>1. m = 0
    BY <1>6, FS_EmptySet
  <2>2. <<>> \in [1..0 -> T] /\ DOMAIN <<>> = {}
    OBVIOUS
  <2>3. Increasing(<<>>, T)
    BY <1>6, <2>1, <2>2 DEF Increasing
  <2> QED  BY <1>5, <2>3
<1>8. PICK x \in T : \A y \in T : ~ (<<y, x>> \in less)
  <2> HIDE DEF less
  <2> QED  BY <1>1, <1>6, <1>7, WFMin
<1>9. \A y \in T : y # x => x < y
  <2> SUFFICES ASSUME NEW y \in T, y # x PROVE x < y
    OBVIOUS
  <2>1. x \in Nat /\ y \in Nat
    BY <1>6
  <2>2. ~(y < x)
    <3>1. y < x => <<y, x>> \in less
      BY <2>1
    <3> HIDE DEF less
    <3> QED  BY <1>8, <3>1
  <2> QED  BY <2>1, <2>2
<1> DEFINE U == T \ {x}
<1>10. U \subseteq Nat /\ IsFiniteSet(U) /\ Cardinality(U) = m - 1 /\ m - 1 \in Nat
  <2>1. IsFiniteSet(U) /\ Cardinality(U) = m - 1
    BY <1>6, <1>8, FS_RemoveElement
  <2>2. m # 0
    BY <1>6, <1>7, FS_EmptySet
  <2> QED  BY <1>6, <2>1, <2>2
<1>11. Listing(U)
  <2>1. <<m - 1, m>> \in less
    BY <1>6, <1>10
  <2>2. m - 1 \notin B
    <3> HIDE DEF B, less
    <3> QED  BY <1>4, <2>1
  <2>3. U \in Sets(m - 1)
    BY <1>10
  <2> HIDE DEF Listing, Sets, U
  <2> QED  BY <1>10, <2>2, <2>3
<1>12. PICK f : Increasing(f, U)
  BY <1>11
<1> HIDE DEF Sets, B, less
<1> DEFINE g == [i \in 1..m |-> IF i = 1 THEN x ELSE f[i - 1]]
<1>13. f \in [1..(m - 1) -> U] /\ \A i, j \in 1..(m - 1) : i < j => f[i] < f[j]
  BY <1>10, <1>12 DEF Increasing
<1>14. ASSUME NEW i \in 1..m PROVE g[i] \in T /\ (i # 1 => i - 1 \in 1..(m - 1) /\ g[i] = f[i - 1] /\ x < g[i]) /\ (i = 1 => g[i] = x)
  <2>1. i # 1 => i - 1 \in 1..(m - 1)
    BY <1>6
  <2>2. i # 1 => f[i - 1] \in U
    BY <1>13, <2>1
  <2> QED  BY <1>8, <1>9, <2>1, <2>2
<1>15. g \in [1..m -> T]
  BY <1>14
<1>16. ASSUME NEW i \in 1..m, NEW j \in 1..m, i < j PROVE g[i] < g[j]
  <2> HIDE DEF g
  <2>1. CASE i = 1
    BY <1>14, <1>16, <2>1
  <2>2. CASE i # 1
    <3>1. j # 1 /\ i - 1 < j - 1
      BY <1>6, <1>16, <2>2
    <3> QED  BY <1>13, <1>14, <2>2, <3>1
  <2> QED  BY <2>1, <2>2
<1>17. Increasing(g, T)
  <2> HIDE DEF g
  <2> QED  BY <1>6, <1>15, <1>16 DEF Increasing
<1> HIDE DEF g
<1> QED  BY <1>5, <1>17

LEMMA SortedFacts ==
    ASSUME NEW S \in SUBSET (Paths \cup Directories)
    PROVE  /\ Cardinality(S) \in Nat /\ sorted[S] \in [1..Cardinality(S) -> S]
           /\ \A i, j \in 1..Cardinality(S) : i < j => sorted[S][i] < sorted[S][j]
<1>1. S \in SUBSET Nat /\ IsFiniteSet(S)
  <2>1. Paths \cup Directories \subseteq Nat /\ IsFiniteSet(Paths) /\ IsFiniteSet(Directories)
    BY PathsAssumption
  <2>2. IsFiniteSet(Paths \cup Directories)
    BY <2>1, FS_Union
  <2> QED  BY <2>1, <2>2, FS_Subset
<1>2. PICK f : Increasing(f, S)
  BY <1>1, OrderedListing
<1> DEFINE s == CHOOSE s \in [1..Cardinality(S) -> S] : \A i, j \in DOMAIN s : i < j => s[i] < s[j]
<1>3. s \in [1..Cardinality(S) -> S] /\ \A i, j \in DOMAIN s : i < j => s[i] < s[j]
  BY <1>2 DEF Increasing
<1>4. sorted[S] = s
  BY DEF sorted
<1> HIDE DEF s
<1> QED  BY <1>1, <1>3, <1>4, FS_CardinalityType

LEMMA NamesFacts ==
    ASSUME NEW tree
    PROVE  \E n \in Nat : names(tree) \in [1..n -> Paths]
<1> DEFINE S == {p \in Paths : tree[p].kind # "absent"}
<1>1. Cardinality(S) \in Nat /\ sorted[S] \in [1..Cardinality(S) -> S]
  <2>1. S \in SUBSET (Paths \cup Directories)
    OBVIOUS
  <2> QED  BY <2>1, SortedFacts
<1> QED  BY <1>1 DEF names

LEMMA SequenceIsSeq ==
    ASSUME NEW S, NEW s \in Seq(S)
    PROVE  IsSeq(s) /\ DOMAIN s = 1..Len(s) /\ \A i \in 1..Len(s) : s[i] \in S
BY DEF IsSeq

LEMMA SeqIsSequence ==
    ASSUME NEW s, IsSeq(s)
    PROVE  s \in Seq({s[i] : i \in 1..Len(s)}) /\ DOMAIN s = 1..Len(s)
<1> DEFINE S == {s[i] : i \in 1..Len(s)}
<1>1. Len(s) \in Nat /\ s = [i \in 1..Len(s) |-> s[i]]
  BY DEF IsSeq
<1>2. s \in [1..Len(s) -> S]
  BY <1>1
<1> QED  BY <1>1, <1>2

LEMMA AppendIsSeq ==
    ASSUME NEW s, IsSeq(s), NEW x
    PROVE  /\ IsSeq(Append(s, x)) /\ Len(Append(s, x)) = Len(s) + 1 /\ Len(s) \in Nat
           /\ DOMAIN s = 1..Len(s) /\ DOMAIN Append(s, x) = 1..(Len(s) + 1)
           /\ \A i \in 1..Len(s) : Append(s, x)[i] = s[i]
           /\ Append(s, x)[Len(s) + 1] = x
<1> DEFINE S == {s[i] : i \in 1..Len(s)} \cup {x}
<1>1. s \in Seq(S) /\ DOMAIN s = 1..Len(s) /\ Len(s) \in Nat
  <2>1. s \in Seq({s[i] : i \in 1..Len(s)}) /\ DOMAIN s = 1..Len(s)
    BY SeqIsSequence
  <2> DEFINE U == {s[i] : i \in 1..Len(s)}
  <2>2. U \subseteq S
    OBVIOUS
  <2> HIDE DEF U, S
  <2>3. s \in Seq(U)
    BY <2>1 DEF U
  <2> QED  BY <2>1, <2>2, <2>3 DEF IsSeq
<1>2. x \in S
  OBVIOUS
<1> HIDE DEF S
<1>3. /\ Append(s, x) \in Seq(S) /\ Len(Append(s, x)) = Len(s) + 1
      /\ \A i \in 1..Len(s) : Append(s, x)[i] = s[i]
      /\ Append(s, x)[Len(s) + 1] = x
  BY <1>1, <1>2
<1>4. IsSeq(Append(s, x)) /\ DOMAIN Append(s, x) = 1..(Len(s) + 1)
  BY <1>3, SequenceIsSeq
<1> QED  BY <1>1, <1>3, <1>4

\* What somebody's edit makes of the directory.
LEMMA EditedTree ==
    ASSUME NEW tree, DOMAIN tree = Paths, NEW path, NEW n \in Nat, NEW next \in Edits(tree, path, n)
    PROVE  /\ DOMAIN next = Paths
           /\ \A q \in Paths : next[q] = tree[q] \/ next[q].kind = "absent" \/ next[q].edit = n
<1> DEFINE files == {Written(tree, path, n)}
                    \cup (IF tree[path].kind = "absent" THEN {}
                          ELSE {Absent, [Absent EXCEPT !.kind = "link", !.edit = n]})
<1>1. \A file \in files : file.kind = "absent" \/ file.edit = n
  <2>1. Written(tree, path, n).edit = n
    BY DEF Written
  <2>2. Absent.kind = "absent" /\ [Absent EXCEPT !.kind = "link", !.edit = n].edit = n
    BY DEF Absent
  <2> QED  BY <2>1, <2>2
<1>2. next \in {[tree EXCEPT ![path] = file] : file \in files}
  BY DEF Edits
<1> HIDE DEF files
<1>3. PICK file \in files : next = [tree EXCEPT ![path] = file]
  BY <1>2
<1> QED  BY <1>1, <1>3

LEMMA HistoryGrows ==
    ASSUME NEW T, History(T), NEW path, NEW tree \in Edits(Last(T), path, Len(T))
    PROVE  History(Append(T, tree))
<1> DEFINE n == Len(T)
           U == Append(T, tree)
<1>1. /\ IsSeq(U) /\ Len(U) = n + 1 /\ n \in Nat /\ n >= 1
      /\ \A i \in 1..n : U[i] = T[i]
      /\ U[n + 1] = tree
  BY AppendIsSeq DEF History
<1>2. DOMAIN T[n] = Paths /\ Last(T) = T[n]
  BY <1>1 DEF History, Last
<1>3. /\ DOMAIN tree = Paths
      /\ \A q \in Paths : tree[q] = T[n][q] \/ tree[q].kind = "absent" \/ tree[q].edit = n
  BY <1>1, <1>2, EditedTree
<1> HIDE DEF U
<1>4. \A i \in 1..Len(U) : i \in 1..n \/ i = n + 1
  BY <1>1
<1>5. \A i \in 1..Len(U) : DOMAIN U[i] = Paths
  BY <1>1, <1>3, <1>4 DEF History
<1>6. ASSUME NEW i \in 1..Len(U), NEW q \in Paths, U[i][q].kind # "absent"
      PROVE  U[i][q].edit \in Nat /\ U[i][q].edit < i
  <2>1. CASE i \in 1..n
    BY <1>1, <1>6, <2>1 DEF History
  <2>2. CASE i = n + 1
    <3>1. CASE tree[q] = T[n][q]
      <4>1. T[n][q].edit \in Nat /\ T[n][q].edit < n
        BY <1>1, <1>6, <2>2, <3>1 DEF History
      <4> QED  BY <1>1, <2>2, <3>1, <4>1
    <3>2. CASE tree[q].edit = n
      BY <1>1, <2>2, <3>2
    <3> QED  BY <1>1, <1>3, <1>6, <2>2, <3>1, <3>2
  <2> QED  BY <1>4, <2>1, <2>2
<1>7. ASSUME NEW j \in 1..Len(U), NEW i \in 1..j, NEW q \in Paths,
             U[j][q].kind # "absent", U[j][q].edit < i
      PROVE  U[i][q] = U[j][q]
  <2>1. CASE j \in 1..n
    <3>1. i \in 1..n
      BY <1>1, <2>1
    <3> QED  BY <1>1, <1>7, <2>1, <3>1 DEF History
  <2>2. CASE j = n + 1 /\ i \in 1..n
    <3>1. tree[q] = T[n][q]
      <4>1. tree[q].edit # n
        BY <1>1, <1>7, <2>2
      <4> QED  BY <1>1, <1>3, <1>7, <2>2, <4>1
    <3> QED  BY <1>1, <1>7, <2>2, <3>1 DEF History
  <2>3. CASE j = n + 1 /\ i = n + 1
    BY <2>3
  <2> QED  BY <1>1, <1>4, <2>1, <2>2, <2>3
<1> QED  BY <1>1, <1>5, <1>6, <1>7 DEF History, U

\* Once seen, always seen.
LEMMA ScannedSinceGrows ==
    ASSUME NEW T, IsSeq(T), NEW tree, NEW e, NEW m \in Nat \ {0}, ScannedSince(T, e, m)
    PROVE  ScannedSince(Append(T, tree), e, m)
<1>1. PICK b \in m..Len(T) : /\ T[b][e.path].kind = "file"
                             /\ e = [path |-> e.path, content |-> contentOf(T[b][e.path])]
  BY DEF ScannedSince
<1>2. b \in m..Len(Append(T, tree)) /\ Append(T, tree)[b] = T[b]
  BY <1>1, AppendIsSeq
<1> QED  BY <1>1, <1>2 DEF ScannedSince

LEMMA ScanGrows ==
    ASSUME NEW T, History(T), NEW tree, NEW s, NEW taken, NEW w, NEW from \in Nat \ {0}, NEW files,
           ScanAt(T, s, taken, w, from, files)
    PROVE  ScanAt(Append(T, tree), s, taken, w, from, files)
<1> DEFINE U == Append(T, tree)
<1>1. IsSeq(T) /\ Len(U) = Len(T) + 1 /\ Len(T) \in Nat /\ \A i \in 1..Len(T) : U[i] = T[i]
  BY AppendIsSeq DEF History
<1>2. \A m \in Nat \ {0} : \A e : ScannedSince(T, e, m) => ScannedSince(U, e, m)
  BY <1>1, ScannedSinceGrows
<1> HIDE DEF U
<1>3. ASSUME NEW m \in from..Len(T) PROVE m \in Nat \ {0} /\ m \in from..Len(U) /\ U[m] = T[m]
  BY <1>1
<1>4. SUFFICES ASSUME s \in Scanning PROVE ScanAt(U, s, taken, w, from, files)
  BY DEF ScanAt, U
<1>5. ASSUME Len(taken) >= 1
      PROVE  \E m \in from..Len(U) :
               /\ IsSeq(taken[1]) /\ names(U[m]) = pathsOf(taken[1])
               /\ \A k \in DOMAIN taken[1] : ReadBefore(taken[1][k], m)
               /\ s = "scanning" => \A k \in DOMAIN w.entries : ScannedSince(U, w.entries[k], m)
               /\ s \in Scanned => \A k \in DOMAIN taken[2] : ScannedSince(U, taken[2][k], m)
  <2>1. PICK m \in from..Len(T) :
           /\ IsSeq(taken[1]) /\ names(T[m]) = pathsOf(taken[1])
           /\ \A k \in DOMAIN taken[1] : ReadBefore(taken[1][k], m)
           /\ s = "scanning" => \A k \in DOMAIN w.entries : ScannedSince(T, w.entries[k], m)
           /\ s \in Scanned => \A k \in DOMAIN taken[2] : ScannedSince(T, taken[2][k], m)
    BY <1>4, <1>5 DEF ScanAt
  <2>2. m \in Nat \ {0} /\ m \in from..Len(U) /\ U[m] = T[m]
    BY <1>3
  <2>3. /\ s = "scanning" => \A k \in DOMAIN w.entries : ScannedSince(U, w.entries[k], m)
        /\ s \in Scanned => \A k \in DOMAIN taken[2] : ScannedSince(U, taken[2][k], m)
    BY <1>2, <2>1, <2>2
  <2> QED  BY <2>1, <2>2, <2>3
<1>6. s = "scanning" => /\ DOMAIN w = {"todo", "stat", "entries", "ok"}
                        /\ w.todo \in Seq(Paths) /\ IsSeq(w.entries)
                        /\ \A k \in DOMAIN w.entries : ScannedSince(U, w.entries[k], from)
  BY <1>2, <1>4 DEF ScanAt
<1> QED  BY <1>4, <1>5, <1>6 DEF ScanAt

\* The directory was once what two scans made of it.
LEMMA ScanSawOneMoment ==
    ASSUME NEW T, History(T), NEW s \in Scanned, NEW taken, NEW w, NEW from \in Nat \ {0}, NEW files,
           ScanAt(T, s, taken, w, from, files)
    PROVE  \E m \in from..Len(T) : ArtifactsOf(T[m]) = taken[2]
<1>1. s \in Scanning /\ Len(taken) >= 1 /\ taken[2] = taken[1]
  BY DEF ScanAt, Scanning, Scanned
<1>2. PICK m \in from..Len(T) :
        /\ IsSeq(taken[1]) /\ names(T[m]) = pathsOf(taken[1])
        /\ \A k \in DOMAIN taken[1] : ReadBefore(taken[1][k], m)
        /\ s \in Scanned => \A k \in DOMAIN taken[2] : ScannedSince(T, taken[2][k], m)
  BY <1>1 DEF ScanAt
<1> DEFINE t == taken[2]
           D == DOMAIN t
<1>3. IsSeq(t) /\ D = 1..Len(t)
  BY <1>1, <1>2, SeqIsSequence
<1>4. DOMAIN names(T[m]) = D /\ \A i \in D : names(T[m])[i] = t[i].path
  BY <1>1, <1>2 DEF pathsOf
<1>5. ASSUME NEW i \in D
      PROVE  t[i] = [path |-> t[i].path, content |-> contentOf(T[m][t[i].path])]
  <2> DEFINE e == t[i]
             q == e.path
  <2>1. PICK b \in m..Len(T) : /\ q \in Paths /\ T[b][q].kind = "file"
                               /\ e = [path |-> q, content |-> contentOf(T[b][q])]
    BY <1>2 DEF ScannedSince
  <2>2. e.content.edit < m
    BY <1>1, <1>2 DEF ReadBefore
  <2>3. T[b][q].edit < m
    BY <2>1, <2>2 DEF contentOf
  <2>4. b \in 1..Len(T) /\ m \in 1..b
    BY <1>2, <2>1 DEF History, IsSeq
  <2>5. T[m][q] = T[b][q]
    BY <2>1, <2>3, <2>4 DEF History
  <2> QED  BY <2>1, <2>5
<1>6. ArtifactsOf(T[m]) = [i \in D |-> t[i]]
  BY <1>4, <1>5 DEF ArtifactsOf
<1>7. t = [i \in D |-> t[i]]
  BY <1>3 DEF IsSeq
<1> QED  BY <1>6, <1>7

LEMMA EmptyIsSeq == IsSeq(<<>>) /\ Len(<<>>) = 0 /\ DOMAIN <<>> = {}
BY DEF IsSeq

LEMMA ScanLists ==
    ASSUME NEW T, NEW taken, NEW w, NEW from, NEW files, NEW tree,
           ScanAt(T, "scan", taken, w, from, files)
    PROVE  ScanAt(T, "scanning", taken, scanList(tree), from, files)
<1> DEFINE l == scanList(tree)
<1>1. DOMAIN l = {"todo", "stat", "entries", "ok"} /\ l.todo = names(tree) /\ l.entries = <<>>
  BY DEF scanList, NoWalk
<1>2. names(tree) \in Seq(Paths)
  <2>1. PICK n \in Nat : names(tree) \in [1..n -> Paths]
    BY NamesFacts
  <2> QED  BY <2>1
<1>3. DOMAIN l.entries = {} /\ IsSeq(l.entries)
  BY <1>1, EmptyIsSeq
<1> HIDE DEF l
<1>4. /\ IsSeq(taken) /\ Len(taken) <= 1
      /\ Len(taken) >= 1 =>
           \E m \in from..Len(T) :
             /\ IsSeq(taken[1]) /\ names(T[m]) = pathsOf(taken[1])
             /\ \A k \in DOMAIN taken[1] : ReadBefore(taken[1][k], m)
  BY DEF ScanAt, Scanning, Scanned
<1>5. ScanAt(T, "scanning", taken, l, from, files)
  BY <1>1, <1>2, <1>3, <1>4 DEF ScanAt, Scanning, Scanned
<1> QED  BY <1>5 DEF l

LEMMA ScanReads ==
    ASSUME NEW T, History(T), NEW taken, NEW w, NEW from \in 1..Len(T), NEW files,
           ScanAt(T, "scanning", taken, w, from, files), w.todo # <<>>, stableFile(w, Last(T)).ok
    PROVE  ScanAt(T, "scanning", taken, stableFile(w, Last(T)), from, files)
<1> DEFINE n == Len(T)
           q == Head(w.todo)
           e == [path |-> q, content |-> contentOf(T[n][q])]
           v == stableFile(w, Last(T))
<1>1. n \in Nat /\ n >= 1 /\ Last(T) = T[n]
  BY DEF History, IsSeq, Last
<1>2. /\ DOMAIN w = {"todo", "stat", "entries", "ok"} /\ w.todo \in Seq(Paths) /\ IsSeq(w.entries)
      /\ \A k \in DOMAIN w.entries : ScannedSince(T, w.entries[k], from)
  BY DEF ScanAt, Scanning
<1>3. q \in Paths /\ Tail(w.todo) \in Seq(Paths)
  BY <1>2
<1>4. T[n][q].kind = "file"
  <2>1. [w EXCEPT !.ok = FALSE].ok = FALSE
    BY <1>2
  <2> QED  BY <1>1, <2>1 DEF stableFile
<1>5. v = [w EXCEPT !.todo = Tail(@), !.entries = Append(@, e)]
  BY <1>1, <1>4 DEF stableFile
<1> HIDE DEF v
<1>6. /\ DOMAIN v = {"todo", "stat", "entries", "ok"}
      /\ v.todo = Tail(w.todo) /\ v.entries = Append(w.entries, e)
  BY <1>2, <1>5
<1>7. /\ IsSeq(v.entries) /\ Len(w.entries) \in Nat
      /\ \A k \in DOMAIN v.entries : (k \in DOMAIN w.entries /\ v.entries[k] = w.entries[k]) \/ v.entries[k] = e
  <2>1. /\ IsSeq(Append(w.entries, e)) /\ Len(w.entries) \in Nat
        /\ DOMAIN w.entries = 1..Len(w.entries) /\ DOMAIN Append(w.entries, e) = 1..(Len(w.entries) + 1)
        /\ \A i \in 1..Len(w.entries) : Append(w.entries, e)[i] = w.entries[i]
        /\ Append(w.entries, e)[Len(w.entries) + 1] = e
    BY <1>2, AppendIsSeq
  <2> HIDE DEF e
  <2>2. \A k \in 1..(Len(w.entries) + 1) : k \in 1..Len(w.entries) \/ k = Len(w.entries) + 1
    BY <2>1
  <2> QED  BY <1>6, <2>1, <2>2
<1>8. ASSUME NEW m \in 1..n PROVE ScannedSince(T, e, m)
  <2>1. n \in m..Len(T) /\ e.path = q
    BY <1>1
  <2> QED  BY <1>3, <1>4, <2>1 DEF ScannedSince
<1> HIDE DEF e
<1>9. ASSUME NEW m \in 1..n, \A k \in DOMAIN w.entries : ScannedSince(T, w.entries[k], m)
      PROVE  \A k \in DOMAIN v.entries : ScannedSince(T, v.entries[k], m)
  BY <1>7, <1>8, <1>9
<1>10. \A k \in DOMAIN v.entries : ScannedSince(T, v.entries[k], from)
  BY <1>2, <1>9
<1>11. IsSeq(taken) /\ Len(taken) <= 1
  BY DEF ScanAt, Scanning, Scanned
<1>12. ASSUME Len(taken) >= 1
       PROVE  \E m \in from..Len(T) :
                /\ IsSeq(taken[1]) /\ names(T[m]) = pathsOf(taken[1])
                /\ \A k \in DOMAIN taken[1] : ReadBefore(taken[1][k], m)
                /\ \A k \in DOMAIN v.entries : ScannedSince(T, v.entries[k], m)
  <2>1. PICK m \in from..Len(T) :
           /\ IsSeq(taken[1]) /\ names(T[m]) = pathsOf(taken[1])
           /\ \A k \in DOMAIN taken[1] : ReadBefore(taken[1][k], m)
           /\ \A k \in DOMAIN w.entries : ScannedSince(T, w.entries[k], m)
    BY <1>12 DEF ScanAt, Scanning
  <2>2. m \in 1..n
    BY <1>1, <2>1
  <2> QED  BY <1>9, <2>1, <2>2
<1>13. ScanAt(T, "scanning", taken, v, from, files)
  BY <1>3, <1>6, <1>7, <1>10, <1>11, <1>12 DEF ScanAt, Scanning, Scanned
<1> QED  BY <1>13 DEF v

LEMMA ScanEnds ==
    ASSUME NEW T, History(T), NEW taken, NEW w, NEW from \in 1..Len(T), NEW files,
           ScanAt(T, "scanning", taken, w, from, files), names(Last(T)) = pathsOf(w.entries), NEW x
    PROVE  LET all == Append(taken, w.entries)
           IN  /\ Len(all) = 1 => ScanAt(T, "scan", all, x, from, files)
               /\ (Len(all) # 1 /\ all[1] = all[2]) => ScanAt(T, "names", all, x, from, files)
<1> DEFINE all == Append(taken, w.entries)
           n == Len(T)
<1>1. n \in Nat /\ n >= 1 /\ Last(T) = T[n] /\ n \in from..n
  BY DEF History, IsSeq, Last
<1>2. /\ IsSeq(w.entries) /\ IsSeq(taken) /\ Len(taken) <= 1
      /\ \A k \in DOMAIN w.entries : ScannedSince(T, w.entries[k], from)
  BY DEF ScanAt, Scanning, Scanned
<1>3. /\ IsSeq(all) /\ Len(all) = Len(taken) + 1 /\ Len(taken) \in {0, 1}
      /\ all[Len(taken) + 1] = w.entries
      /\ Len(taken) = 1 => all[1] = taken[1]
  <2>1. /\ IsSeq(all) /\ Len(all) = Len(taken) + 1 /\ Len(taken) \in Nat
        /\ \A i \in 1..Len(taken) : all[i] = taken[i]
        /\ all[Len(taken) + 1] = w.entries
    BY <1>2, AppendIsSeq
  <2> HIDE DEF all
  <2>2. Len(taken) \in {0, 1}
    <3>1. \A i \in Nat : i <= 1 => i \in {0, 1}
      OBVIOUS
    <3> QED  BY <1>2, <2>1, <3>1, Zenon
  <2>3. Len(taken) = 1 => 1 \in 1..Len(taken)
    BY <2>1
  <2> QED  BY <2>1, <2>2, <2>3
<1>4. ASSUME NEW k \in DOMAIN w.entries PROVE ReadBefore(w.entries[k], n)
  <2> DEFINE e == w.entries[k]
  <2>1. PICK b \in from..n : /\ e.path \in Paths /\ T[b][e.path].kind = "file"
                             /\ e = [path |-> e.path, content |-> contentOf(T[b][e.path])]
    BY <1>2 DEF ScannedSince
  <2>2. T[b][e.path].edit \in Nat /\ T[b][e.path].edit < b
    BY <1>1, <2>1 DEF History
  <2>3. e.content.edit = T[b][e.path].edit
    BY <2>1 DEF contentOf
  <2> QED  BY <1>1, <2>1, <2>2, <2>3 DEF ReadBefore
<1> HIDE DEF all
<1>5. ASSUME Len(all) = 1 PROVE ScanAt(T, "scan", all, x, from, files)
  <2>1. all[1] = w.entries
    BY <1>3, <1>5
  <2> QED  BY <1>1, <1>2, <1>3, <1>4, <1>5, <2>1 DEF ScanAt, Scanning, Scanned
<1>6. ASSUME Len(all) # 1, all[1] = all[2] PROVE ScanAt(T, "names", all, x, from, files)
  <2>1. Len(taken) = 1 /\ Len(all) = 2 /\ all[2] = w.entries /\ all[1] = taken[1]
    <3>1. Len(taken) = 1
      BY <1>3, <1>6
    <3>2. Len(all) = 2 /\ all[1 + 1] = w.entries /\ all[1] = taken[1]
      BY <1>3, <3>1
    <3> QED  BY <3>1, <3>2
  <2>2. \E m \in from..Len(T) :
           /\ IsSeq(taken[1]) /\ names(T[m]) = pathsOf(taken[1])
           /\ \A k \in DOMAIN taken[1] : ReadBefore(taken[1][k], m)
           /\ \A k \in DOMAIN w.entries : ScannedSince(T, w.entries[k], m)
    BY <2>1 DEF ScanAt, Scanning
  <2> QED  BY <1>3, <1>6, <2>1, <2>2 DEF ScanAt, Scanning, Scanned
<1> QED  BY <1>5, <1>6 DEF all

-----------------------------------------------------------------------------
(* Steps that leave the scans of the other processes alone. *)

\* p goes to one of the steps, and the others stay as they are.
Reaches(p, steps) ==
    /\ script' = script /\ trees' = trees /\ since' = since
    /\ pc'[p] \in steps
    /\ DOMAIN snaps' = Procs /\ DOMAIN walk' = Procs
    /\ \A q \in Procs \ {p} : pc'[q] = pc[q] /\ snaps'[q] = snaps[q] /\ walk'[q] = walk[q]

\* Everything that is neither a step of a scan nor one on the way to it.
Aside == {"done"} \cup Comparing

LEMMA ReachingKeepsTree ==
    ASSUME TreeInv, NEW p \in Procs, pc[p] # "idle", NEW steps, "idle" \notin steps, Reaches(p, steps),
           pc'[p] \in BlankSteps => snaps'[p] = <<>>,
           ScanAt(trees, pc'[p], snaps'[p], walk'[p], since[p], Command(p).index.files),
           \A r \in reg' : r \in reg \/ RecordBacked(p, r)
    PROVE  TreeInv'
<1>1. /\ script' = script /\ trees' = trees /\ since' = since /\ Procs' = Procs
      /\ DOMAIN snaps' = Procs /\ DOMAIN walk' = Procs
      /\ \A q \in Procs : Command(q)' = Command(q)
      /\ pc'[p] # "idle"
  BY DEF Reaches, Procs, Command
<1>2. \A q \in Procs : q = p \/ (pc'[q] = pc[q] /\ snaps'[q] = snaps[q] /\ walk'[q] = walk[q])
  BY DEF Reaches
<1>3. ASSUME NEW q \in Procs
      PROVE  /\ pc'[q] # "idle" => since'[q] \in 1..Len(trees')
             /\ pc'[q] \in BlankSteps => snaps'[q] = <<>>
             /\ ScanOf(q)'
  <2>1. CASE q = p
    BY <1>1, <2>1 DEF TreeInv, ScanOf
  <2>2. CASE q # p
    BY <1>1, <1>2, <2>2 DEF TreeInv, ScanOf
  <2> QED  BY <2>1, <2>2
<1>4. ASSUME NEW q \in Procs, NEW r, RecordBacked(q, r)
      PROVE  RecordBacked(q, r)'
  <2>1. pc'[q] # "idle"
    BY <1>1, <1>2, <1>4 DEF RecordBacked
  <2>2. ArtifactsExisted(q, Command(q).index.files)' = ArtifactsExisted(q, Command(q).index.files)
    BY <1>1 DEF ArtifactsExisted
  <2> QED  BY <1>1, <1>4, <2>1, <2>2 DEF RecordBacked
<1>5. \A r \in reg' : \E q \in Procs : RecordBacked(q, r)'
  BY <1>4 DEF TreeInv
<1> QED  BY <1>1, <1>3, <1>5 DEF TreeInv

LEMMA AsideKeepsTree ==
    ASSUME TreeInv, NEW p \in Procs, pc[p] # "idle", Reaches(p, Aside), reg' = reg
    PROVE  TreeInv'
<1>1. pc'[p] \notin BlankSteps /\ pc'[p] \notin Scanning /\ "idle" \notin Aside
  BY DEF Reaches, Aside, Comparing, BlankSteps, Scanning
<1>2. ScanAt(trees, pc'[p], snaps'[p], walk'[p], since[p], Command(p).index.files)
  BY <1>1 DEF ScanAt
<1> QED  BY <1>1, <1>2, ReachingKeepsTree

\* Steps before anything has been read.
Early == BlankSteps \cup {"scan"} \cup Aside

LEMMA EarlyKeepsTree ==
    ASSUME TreeInv, NEW p \in Procs, pc[p] \in BlankSteps \ {"idle"}, Reaches(p, Early \ {"idle"}),
           snaps' = snaps, \A r \in reg' : r \in reg \/ RecordBacked(p, r)
    PROVE  TreeInv'
<1>1. snaps'[p] = <<>>
  BY DEF TreeInv
<1>2. pc'[p] \in Scanning => pc'[p] = "scan"
  BY DEF Reaches, Early, Aside, Comparing, BlankSteps, Scanning
<1>3. ScanAt(trees, pc'[p], snaps'[p], walk'[p], since[p], Command(p).index.files)
  BY <1>1, <1>2, EmptyIsSeq DEF ScanAt, Scanned
<1> QED  BY <1>1, <1>3, ReachingKeepsTree

-----------------------------------------------------------------------------
(* Where each step may lead. *)


LEMMA Ways ==
    ASSUME Types, NEW p \in Procs
    PROVE  /\ \A s : Goto(p, s) => pc'[p] = s /\ \A q \in Procs \ {p} : pc'[q] = pc[q]
           /\ \A o : Finish(p, o) => pc'[p] = "done" /\ \A q \in Procs \ {p} : pc'[q] = pc[q]
           /\ \A o : Fail(p, o) => pc'[p] = "done" /\ \A q \in Procs \ {p} : pc'[q] = pc[q]
           /\ \A o : Reject(p, o) => pc'[p] = "done" /\ \A q \in Procs \ {p} : pc'[q] = pc[q]
           /\ Accept(p) => pc'[p] \in {"done", "resolve"} /\ \A q \in Procs \ {p} : pc'[q] = pc[q]
<1>1. \A s : pc' = [pc EXCEPT ![p] = s] => pc'[p] = s /\ \A q \in Procs \ {p} : pc'[q] = pc[q]
  BY DEF Types
<1>2. \A s : Goto(p, s) => pc' = [pc EXCEPT ![p] = s]
  BY DEF Goto
<1>3. \A o : Finish(p, o) => pc' = [pc EXCEPT ![p] = "done"]
  BY DEF Finish
<1>4. \A o : Fail(p, o) => pc' = [pc EXCEPT ![p] = "done"]
  BY DEF Finish, Fail
<1>5. \A o : Reject(p, o) => pc' = [pc EXCEPT ![p] = "done"]
  BY DEF Finish, Reject
<1>6. Accept(p) => pc' = [pc EXCEPT ![p] = "done"] \/ pc' = [pc EXCEPT ![p] = "resolve"]
  BY DEF Finish, Accept
<1> QED  BY <1>1, <1>2, <1>3, <1>4, <1>5, <1>6

LEMMA ComparesReaches ==
    ASSUME Types, TreeInv, NEW p \in Procs, Compares(p) \/ UNCHANGED <<pc, result>>, pc[p] \in Comparing,
           UNCHANGED <<script, trees, since>>,
           DOMAIN snaps' = Procs, DOMAIN walk' = Procs,
           \A q \in Procs \ {p} : snaps'[q] = snaps[q] /\ walk'[q] = walk[q]
    PROVE  Reaches(p, Aside)
<1>1. pc'[p] \in Aside /\ \A q \in Procs \ {p} : pc'[q] = pc[q]
  <2>1. CASE Compares(p)
    <3>1. PICK s, r : Later(p, s, r) /\ s \in Comparing \cup {"done"}
      BY <2>1 DEF Compares
    <3> QED  BY <3>1 DEF Later, Types, Aside
  <2>2. CASE UNCHANGED <<pc, result>>
    BY <2>2 DEF Aside
  <2> QED  BY <2>1, <2>2
<1> QED  BY <1>1 DEF Reaches

LEMMA ComparingKeepsTree ==
    ASSUME Inv, TreeInv, NEW p \in Procs,
           \/ ResolveSource(p) \/ ListTree(p) \/ VisitFile(p) \/ EndWalk(p)
           \/ ReadPlan(p) \/ ReadDerivedInput(p) \/ ProbeFreshnessRunner(p)
    PROVE  TreeInv'
<1>1. Compares(p) \/ UNCHANGED <<pc, result>>
  BY ResolveSourceCompares, ListTreeCompares, VisitFileCompares, EndWalkCompares, ReadPlanCompares,
     ReadDerivedInputCompares, ProbeCompares
<1>2. pc[p] \in Comparing /\ pc[p] # "idle"
  BY DEF Comparing, ResolveSource, ListTree, VisitFile, EndWalk, ReadPlan, ReadDerivedInput, ProbeFreshnessRunner
<1>3. UNCHANGED <<script, trees, since, reg>>
  BY DEF ResolveSource, ListTree, VisitFile, EndWalk, ReadPlan, ReadDerivedInput, ProbeFreshnessRunner
<1>4. \E x : walk' = [walk EXCEPT ![p] = x] \/ walk' = walk
  BY DEF ResolveSource, ListTree, VisitFile, EndWalk, ReadPlan, ReadDerivedInput, ProbeFreshnessRunner
<1>5. \E x : snaps' = [snaps EXCEPT ![p] = x] \/ snaps' = snaps
  BY DEF ResolveSource, ListTree, VisitFile, EndWalk, ReadPlan, ReadDerivedInput, ProbeFreshnessRunner
<1>6. /\ DOMAIN snaps' = Procs /\ DOMAIN walk' = Procs
      /\ \A q \in Procs \ {p} : snaps'[q] = snaps[q] /\ walk'[q] = walk[q]
  BY <1>4, <1>5 DEF TreeInv
<1>7. Reaches(p, Aside)
  BY <1>1, <1>2, <1>3, <1>6, ComparesReaches DEF Inv
<1> QED  BY <1>2, <1>3, <1>7, AsideKeepsTree

LEMMA EndingKeepsTree ==
    ASSUME Inv, TreeInv, NEW p \in Procs, Kill(p) \/ BuildBundle(p) \/ Attest(p) \/ Issue(p)
    PROVE  TreeInv'
<1>1. pc[p] # "idle" /\ UNCHANGED <<script, trees, since, reg, snaps, walk>>
  BY DEF Kill, BuildBundle, Attest, Issue
<1>2. pc'[p] \in Aside /\ \A q \in Procs \ {p} : pc'[q] = pc[q]
  BY Ways DEF Inv, Kill, BuildBundle, Attest, Issue, Aside, Comparing
<1>3. Reaches(p, Aside)
  BY <1>1, <1>2 DEF Reaches, TreeInv
<1> QED  BY <1>1, <1>3, AsideKeepsTree

LEMMA DocumentsKeepTree ==
    ASSUME Inv, TreeInv, NEW p \in Procs,
           \/ VerifyAttestation(p) \/ VerifySigner(p) \/ VerifyReleaseIndex(p) \/ AuthorizeIndex(p)
           \/ SignReleaseIndex(p)
    PROVE  TreeInv'
<1>1. pc[p] \in BlankSteps \ {"idle"} /\ UNCHANGED <<script, trees, since, reg, snaps, walk>>
  BY DEF VerifyAttestation, VerifySigner, VerifyReleaseIndex, AuthorizeIndex, SignReleaseIndex, BlankSteps
<1>2. pc'[p] \in Early \ {"idle"} /\ \A q \in Procs \ {p} : pc'[q] = pc[q]
  <2>1. /\ "done" \in Early \ {"idle"} /\ "resolve" \in Early \ {"idle"} /\ "policy-state" \in Early \ {"idle"}
        /\ "authority-state" \in Early \ {"idle"} /\ "authorize" \in Early \ {"idle"}
        /\ "signer" \in Early \ {"idle"} /\ "scan" \in Early \ {"idle"}
    BY DEF Early, Aside, Comparing, BlankSteps
  <2>2. ReleasePolicy(p) => pc'[p] \in {"done", "policy-state", "authorize"} /\ \A q \in Procs \ {p} : pc'[q] = pc[q]
    BY Ways DEF ReleasePolicy, Inv
  <2>3. \A d : DecideSigner(p, d) => pc'[p] \in {"done", "resolve"} /\ \A q \in Procs \ {p} : pc'[q] = pc[q]
    BY Ways DEF DecideSigner, Inv
  <2>4. CASE VerifyAttestation(p)
    BY <2>1, <2>3, <2>4, Ways DEF VerifyAttestation, Inv
  <2>5. CASE VerifySigner(p)
    BY <2>1, <2>3, <2>5, Ways DEF VerifySigner, Inv
  <2>6. CASE VerifyReleaseIndex(p)
    BY <2>1, <2>2, <2>6, Ways DEF VerifyReleaseIndex, Inv
  <2>7. CASE AuthorizeIndex(p) \/ SignReleaseIndex(p)
    BY <2>1, <2>7, Ways DEF AuthorizeIndex, SignReleaseIndex, Inv
  <2> QED  BY <2>4, <2>5, <2>6, <2>7
<1>3. Reaches(p, Early \ {"idle"})
  BY <1>1, <1>2 DEF Reaches, TreeInv
<1> QED  BY <1>1, <1>3, EarlyKeepsTree

\* What a command observes it has earned.
LEMMA ObservedIsEarned ==
    ASSUME Inv, NEW p \in Procs
    PROVE  LET c == Command(p) IN
           /\ (pc[p] = "policy-state" /\ c.op = "verify-attestation") =>
                Earns(c, attestationObservation(c)) /\ attestationObservation(c).store # "release-index"
           /\ pc[p] = "authority-state" =>
                Earns(c, releaseAuthorityObservation(c)) /\ releaseAuthorityObservation(c).store # "release-index"
           /\ (pc[p] = "policy-state" /\ c.op = "verify-release-index") =>
                Earns(c, releasePolicyObservation(c)) /\ releasePolicyObservation(c).store # "release-index"
           /\ pc[p] = "index-state" => Earns(c, releaseIndexObservation(c))
<1> DEFINE c == Command(p)
<1>1. Local(c, pc[p], result[p]) /\ script \in Scripts /\ p \in DOMAIN script.commands
  BY DEF Inv, Types, Procs
<1>2. ASSUME pc[p] = "policy-state", c.op = "verify-attestation"
      PROVE  Earns(c, attestationObservation(c)) /\ attestationObservation(c).store # "release-index"
  <2>1. c.persist /\ BundleOK(c) /\ TrustOf(c) = "ok"
    BY <1>1, <1>2 DEF Local, Reviewed, RightStep
  <2>2. c.mode \in SignedModes
    BY <1>1, <1>2, <2>1, ScriptsAssumption DEF Command, SignedModes, Verifying
  <2>3. attestationObservation(c).store # "release-index"
    BY <2>2 DEF SignedModes, attestationObservation, trustObservation, rotationObservation, chainObservation
  <2> QED  BY <1>2, <2>1, <2>3 DEF Earns, Observations, Verifying
<1>3. ASSUME pc[p] = "authority-state"
      PROVE  Earns(c, releaseAuthorityObservation(c)) /\ releaseAuthorityObservation(c).store # "release-index"
  <2>1. c.op = "verify-release-index" /\ c.persist /\ c.mode # "direct" /\ IndexOK(c)
    BY <1>1, <1>3 DEF Local, RightStep, Reviewed
  <2>2. releaseAuthorityObservation(c) \in Observations(c)
        /\ releaseAuthorityObservation(c).store \notin {"release-policy", "release-index"}
    BY <2>1 DEF Observations, releaseAuthorityObservation
  <2> QED  BY <2>1, <2>2, ReleaseIsVerifying DEF Earns
<1>4. ASSUME pc[p] = "policy-state", c.op = "verify-release-index"
      PROVE  Earns(c, releasePolicyObservation(c)) /\ releasePolicyObservation(c).store # "release-index"
  <2>1. c.persist /\ IndexOK(c) /\ PolicyOK(c)
    BY <1>1, <1>4 DEF Local, RightStep, Reviewed, PastAuthority
  <2>2. releasePolicyObservation(c) \in Observations(c) /\ releasePolicyObservation(c).store = "release-policy"
    BY <1>4 DEF Observations, releasePolicyObservation
  <2> QED  BY <1>4, <2>1, <2>2, ReleaseIsVerifying DEF Earns
<1>5. ASSUME pc[p] = "index-state"
      PROVE  Earns(c, releaseIndexObservation(c))
  <2>1. c.op = "verify-release-index" /\ c.persist
    BY <1>1, <1>5 DEF Local, RightStep
  <2>2. pc[p] \in AtArtifacts /\ pc[p] \in PastAuthority
    BY <1>5 DEF AtArtifacts, PastPolicy, PastAuthority
  <2>3. IndexOK(c) /\ PolicyOK(c) /\ Authorized(c)
    BY <1>1, <2>1, <2>2 DEF Local, Reviewed
  <2>4. releaseIndexObservation(c) \in Observations(c)
    BY <2>1 DEF Observations
  <2> QED  BY <2>1, <2>3, <2>4, ReleaseIsVerifying DEF Earns
<1> QED  BY <1>2, <1>3, <1>4, <1>5

LEMMA ObserveAdds ==
    ASSUME NEW o, NEW evaluation, Observe(o, evaluation)
    PROVE  \A r \in reg' : r \in reg \/ r = o
BY DEF Observe

LEMMA ObservingKeepsTree ==
    ASSUME Inv, TreeInv, NEW p \in Procs,
           ObservePolicyState(p) \/ ObserveAuthorityState(p) \/ ObserveReleasePolicy(p)
    PROVE  TreeInv'
<1> DEFINE c == Command(p)
<1>1. pc[p] \in BlankSteps \ {"idle"} /\ UNCHANGED <<script, trees, since, snaps, walk>>
  BY DEF ObservePolicyState, ObserveAuthorityState, ObserveReleasePolicy, BlankSteps
<1>2. ReleasePolicy(p) => pc'[p] \in {"done", "policy-state", "authorize"} /\ \A q \in Procs \ {p} : pc'[q] = pc[q]
  BY Ways DEF ReleasePolicy, Inv
<1>3. /\ pc'[p] \in {"done", "policy-state", "authorize", "signer"} /\ \A q \in Procs \ {p} : pc'[q] = pc[q]
      /\ \E o, evaluation : Observe(o, evaluation) /\ Earns(c, o) /\ o.store # "release-index"
  <2>1. CASE ObservePolicyState(p)
    BY <2>1, Ways, ObservedIsEarned DEF ObservePolicyState, Inv
  <2>2. CASE ObserveAuthorityState(p)
    BY <1>2, <2>2, Ways, ObservedIsEarned DEF ObserveAuthorityState, ObserveRelease, Inv
  <2>3. CASE ObserveReleasePolicy(p)
    BY <2>3, Ways, ObservedIsEarned DEF ObserveReleasePolicy, ObserveRelease, Inv
  <2> QED  BY <2>1, <2>2, <2>3
<1>4. {"done", "policy-state", "authorize", "signer"} \subseteq Early \ {"idle"}
  BY DEF Early, Aside, Comparing, BlankSteps
<1>5. Reaches(p, Early \ {"idle"})
  BY <1>1, <1>3, <1>4 DEF Reaches, TreeInv
<1>6. \A r \in reg' : r \in reg \/ RecordBacked(p, r)
  BY <1>1, <1>3, ObserveAdds DEF RecordBacked
<1> QED  BY <1>1, <1>5, <1>6, EarlyKeepsTree

LEMMA ScanningKeepsTree ==
    ASSUME Inv, TreeInv, NEW p \in Procs, ScanList(p) \/ ScanFile(p) \/ ScanEnd(p) \/ InspectedArtifacts(p)
    PROVE  TreeInv'
<1> DEFINE c == Command(p)
           files == c.index.files
<1>1. /\ History(trees) /\ DOMAIN snaps = Procs /\ DOMAIN walk = Procs
      /\ pc[p] # "idle" /\ since[p] \in 1..Len(trees)
      /\ ScanAt(trees, pc[p], snaps[p], walk[p], since[p], files)
  BY DEF TreeInv, ScanOf, ScanList, ScanFile, ScanEnd, InspectedArtifacts
<1>2. UNCHANGED <<script, trees, since, reg>>
  BY DEF ScanList, ScanFile, ScanEnd, InspectedArtifacts
<1>3. Types
  BY DEF Inv
<1>4. ASSUME NEW s, s \notin BlankSteps, pc'[p] = s, \A q \in Procs \ {p} : pc'[q] = pc[q],
             DOMAIN snaps' = Procs, DOMAIN walk' = Procs,
             \A q \in Procs \ {p} : snaps'[q] = snaps[q] /\ walk'[q] = walk[q],
             s = "done" \/ ScanAt(trees, s, snaps'[p], walk'[p], since[p], files)
      PROVE  TreeInv'
  <2>1. Reaches(p, {s}) /\ "idle" \notin {s}
    BY <1>2, <1>4 DEF Reaches, BlankSteps
  <2>2. ScanAt(trees, pc'[p], snaps'[p], walk'[p], since[p], files)
    <3>1. s = "done" => s \notin Scanning
      BY DEF Scanning
    <3> QED  BY <1>4, <3>1 DEF ScanAt
  <2> QED  BY <1>1, <1>2, <1>4, <2>1, <2>2, ReachingKeepsTree
<1>5. \A s \in {"scan", "scanning", "names", "index-state", "done"} : s \notin BlankSteps
  BY DEF BlankSteps
<1>6. CASE ScanList(p)
  <2>1. /\ pc[p] = "scan" /\ walk' = [walk EXCEPT ![p] = scanList(Tree)] /\ snaps' = snaps
        /\ Goto(p, "scanning") \/ Fail(p, "artifacts")
    BY <1>6 DEF ScanList
  <2>2. walk'[p] = scanList(Tree) /\ DOMAIN walk' = Procs /\ \A q \in Procs \ {p} : walk'[q] = walk[q]
    BY <1>1, <2>1
  <2>3. ScanAt(trees, "scanning", snaps[p], scanList(Tree), since[p], files)
    BY <1>1, <2>1, ScanLists
  <2>4. pc'[p] \in {"scanning", "done"} /\ \A q \in Procs \ {p} : pc'[q] = pc[q]
    BY <1>3, <2>1, Ways
  <2> QED  BY <1>1, <1>4, <1>5, <2>1, <2>2, <2>3, <2>4
<1>7. CASE ScanFile(p)
  <2> DEFINE v == stableFile(walk[p], Tree)
  <2>1. /\ pc[p] = "scanning" /\ walk[p].todo # <<>> /\ walk' = [walk EXCEPT ![p] = v] /\ snaps' = snaps
        /\ (v.ok /\ UNCHANGED <<pc, result>>) \/ Fail(p, "artifacts")
    BY <1>7 DEF ScanFile
  <2>2. walk'[p] = v /\ DOMAIN walk' = Procs /\ \A q \in Procs \ {p} : walk'[q] = walk[q]
    BY <1>1, <2>1
  <2>3. v.ok => ScanAt(trees, "scanning", snaps[p], v, since[p], files)
    BY <1>1, <2>1, ScanReads DEF Tree
  <2> HIDE DEF v
  <2>4. ((v.ok /\ pc'[p] = "scanning") \/ pc'[p] = "done") /\ \A q \in Procs \ {p} : pc'[q] = pc[q]
    BY <1>3, <2>1, Ways
  <2> QED  BY <1>1, <1>4, <1>5, <2>1, <2>2, <2>3, <2>4
<1>8. CASE ScanEnd(p)
  <2> DEFINE all == Append(snaps[p], walk[p].entries)
  <2>1. /\ pc[p] = "scanning" /\ walk' = [walk EXCEPT ![p] = NoWalk] /\ snaps' = [snaps EXCEPT ![p] = all]
        /\ \/ Fail(p, "artifacts")
           \/ /\ names(Tree) = pathsOf(walk[p].entries)
              /\ \/ Len(all) = 1 /\ Goto(p, "scan")
                 \/ Len(all) # 1 /\ all[1] = all[2] /\ Goto(p, "names")
    BY <1>8 DEF ScanEnd, scanArtifactRoot
  <2>2. /\ walk'[p] = NoWalk /\ DOMAIN walk' = Procs /\ \A q \in Procs \ {p} : walk'[q] = walk[q]
        /\ snaps'[p] = all /\ DOMAIN snaps' = Procs /\ \A q \in Procs \ {p} : snaps'[q] = snaps[q]
    BY <1>1, <2>1
  <2>3. names(Tree) = pathsOf(walk[p].entries) =>
           /\ Len(all) = 1 => ScanAt(trees, "scan", all, NoWalk, since[p], files)
           /\ (Len(all) # 1 /\ all[1] = all[2]) => ScanAt(trees, "names", all, NoWalk, since[p], files)
    BY <1>1, <2>1, ScanEnds DEF Tree
  <2> HIDE DEF all
  <2>4. /\ \/ pc'[p] = "done"
           \/ pc'[p] = "scan" /\ ScanAt(trees, "scan", all, NoWalk, since[p], files)
           \/ pc'[p] = "names" /\ ScanAt(trees, "names", all, NoWalk, since[p], files)
        /\ \A q \in Procs \ {p} : pc'[q] = pc[q]
    BY <1>3, <2>1, <2>3, Ways
  <2> QED  BY <1>4, <1>5, <2>2, <2>4
<1>9. CASE InspectedArtifacts(p)
  <2>1. /\ pc[p] = "names" /\ walk' = walk /\ snaps' = snaps
        /\ \/ snaps[p][2] = files /\ Goto(p, "index-state")
           \/ \E reason : Fail(p, reason)
           \/ \E o : Finish(p, o)
    BY <1>9 DEF InspectedArtifacts
  <2>2. /\ pc'[p] = "done" \/ (pc'[p] = "index-state" /\ snaps[p][2] = files)
        /\ \A q \in Procs \ {p} : pc'[q] = pc[q]
    BY <1>3, <2>1, Ways
  <2>3. snaps[p][2] = files => ScanAt(trees, "index-state", snaps[p], walk[p], since[p], files)
    BY <1>1, <2>1 DEF ScanAt, Scanning, Scanned
  <2> QED  BY <1>1, <1>4, <1>5, <2>1, <2>2, <2>3
<1> QED  BY <1>6, <1>7, <1>8, <1>9

LEMMA ObserveIndexStateKeepsTree ==
    ASSUME Inv, TreeInv, NEW p \in Procs, ObserveIndexState(p)
    PROVE  TreeInv'
<1> DEFINE c == Command(p)
           o == releaseIndexObservation(c)
<1>1. pc[p] = "index-state" /\ UNCHANGED <<script, trees, since, snaps, walk>>
  BY DEF ObserveIndexState
<1>2. PICK evaluation : /\ Observe(o, evaluation)
                        /\ Finish(p, Accepted(p)) \/ Reject(p, evaluation)
  BY DEF ObserveIndexState, ObserveRelease
<1>3. pc'[p] = "done" /\ \A q \in Procs \ {p} : pc'[q] = pc[q]
  BY <1>2, Ways DEF Inv
<1>4. Reaches(p, {"done"})
  BY <1>1, <1>3 DEF Reaches, TreeInv
<1>5. /\ History(trees) /\ since[p] \in 1..Len(trees)
      /\ ScanAt(trees, "index-state", snaps[p], walk[p], since[p], c.index.files)
  BY <1>1 DEF TreeInv, ScanOf
<1>6. ArtifactsExisted(p, c.index.files)
  <2>1. snaps[p][2] = c.index.files /\ "index-state" \in Scanned
    BY <1>5 DEF ScanAt, Scanning, Scanned
  <2>2. \E m \in since[p]..Len(trees) : ArtifactsOf(trees[m]) = snaps[p][2]
    BY <1>5, <2>1, ScanSawOneMoment
  <2> QED  BY <2>1, <2>2 DEF ArtifactsExisted
<1>7. Earns(c, o)
  BY <1>1, ObservedIsEarned
<1>8. \A r \in reg' : r \in reg \/ RecordBacked(p, r)
  BY <1>1, <1>2, <1>6, <1>7, ObserveAdds DEF RecordBacked
<1>9. /\ pc'[p] \in BlankSteps => snaps'[p] = <<>>
      /\ ScanAt(trees, pc'[p], snaps'[p], walk'[p], since[p], c.index.files)
  BY <1>3 DEF BlankSteps, ScanAt, Scanning
<1> QED  BY <1>1, <1>4, <1>8, <1>9, ReachingKeepsTree

LEMMA BeginKeepsTree ==
    ASSUME Inv, TreeInv, NEW p \in Procs, Begin(p)
    PROVE  TreeInv'
<1>1. /\ pc[p] = "idle" /\ UNCHANGED <<script, trees, reg, snaps, walk>>
      /\ since' = [since EXCEPT ![p] = Len(trees)]
      /\ Procs' = Procs /\ \A q \in Procs : Command(q)' = Command(q)
  BY DEF Begin, Procs, Command
<1>2. pc'[p] = "start" /\ \A q \in Procs \ {p} : pc'[q] = pc[q]
  BY Ways DEF Inv, Begin
<1>3. since'[p] = Len(trees) /\ DOMAIN since' = Procs /\ \A q \in Procs \ {p} : since'[q] = since[q]
  BY <1>1 DEF TreeInv
<1>4. Len(trees) \in 1..Len(trees)
  BY DEF TreeInv, History, IsSeq
<1>5. ASSUME NEW q \in Procs
      PROVE  /\ pc'[q] # "idle" => since'[q] \in 1..Len(trees')
             /\ pc'[q] \in BlankSteps => snaps'[q] = <<>>
             /\ ScanOf(q)'
  <2>1. CASE q = p
    <3>1. snaps[p] = <<>> /\ "start" \notin Scanning
      BY <1>1 DEF TreeInv, BlankSteps, Scanning
    <3>2. ScanAt(trees', pc'[p], snaps'[p], walk'[p], since'[p], Command(p)'.index.files)
      BY <1>2, <3>1 DEF ScanAt
    <3> QED  BY <1>1, <1>2, <1>3, <1>4, <2>1, <3>1, <3>2 DEF ScanOf
  <2>2. CASE q # p
    BY <1>1, <1>2, <1>3, <2>2 DEF TreeInv, ScanOf
  <2> QED  BY <2>1, <2>2
<1>6. ASSUME NEW q \in Procs, NEW r, RecordBacked(q, r)
      PROVE  RecordBacked(q, r)'
  <2>1. q # p
    BY <1>1, <1>6 DEF RecordBacked
  <2>2. ArtifactsExisted(q, Command(q).index.files)' = ArtifactsExisted(q, Command(q).index.files)
    BY <1>1, <1>3, <2>1 DEF ArtifactsExisted
  <2> QED  BY <1>1, <1>2, <1>6, <2>1, <2>2 DEF RecordBacked
<1> QED  BY <1>1, <1>3, <1>5, <1>6 DEF TreeInv

LEMMA EditKeepsTree ==
    ASSUME Inv, TreeInv, EditTree
    PROVE  TreeInv'
<1>1. /\ UNCHANGED <<script, pc, snaps, walk, reg, since>>
      /\ Procs' = Procs /\ \A q \in Procs : Command(q)' = Command(q)
  BY DEF EditTree, Procs, Command
<1>a. PICK path \in script.editable : \E tree \in Edits(Tree, path, Len(trees)) : trees' = Append(trees, tree)
  BY DEF EditTree
<1>2. PICK tree \in Edits(Tree, path, Len(trees)) : trees' = Append(trees, tree)
  BY <1>a
<1>3. History(trees')
  BY <1>2, HistoryGrows DEF TreeInv, Tree
<1>4. /\ Len(trees') = Len(trees) + 1 /\ Len(trees) \in Nat
      /\ \A i \in 1..Len(trees) : trees'[i] = trees[i]
  BY <1>2, AppendIsSeq DEF TreeInv, History
<1>5. ASSUME NEW q \in Procs
      PROVE  /\ pc[q] # "idle" => since[q] \in 1..Len(trees')
             /\ ScanOf(q)'
  <2>1. pc[q] # "idle" => since[q] \in 1..Len(trees)
    BY DEF TreeInv
  <2>2. pc[q] # "idle" => since[q] \in 1..Len(trees')
    BY <1>4, <2>1
  <2>3. ScanAt(trees, pc[q], snaps[q], walk[q], since[q], Command(q).index.files)
    BY DEF TreeInv, ScanOf
  <2>4. CASE pc[q] = "idle"
    <3>1. pc[q] \notin Scanning
      BY <2>4 DEF Scanning
    <3> QED  BY <1>1, <2>2, <3>1 DEF ScanOf, ScanAt
  <2>5. CASE pc[q] # "idle"
    <3>1. since[q] \in Nat \ {0}
      BY <2>1, <2>5
    <3>2. ScanAt(trees', pc[q], snaps[q], walk[q], since[q], Command(q).index.files)
      BY <1>2, <2>3, <3>1, ScanGrows DEF TreeInv
    <3> QED  BY <1>1, <2>2, <3>2 DEF ScanOf
  <2> QED  BY <2>4, <2>5
<1>6. ASSUME NEW q \in Procs, NEW r, RecordBacked(q, r)
      PROVE  RecordBacked(q, r)'
  <2>1. pc[q] # "idle" /\ since[q] \in 1..Len(trees)
    BY <1>6 DEF RecordBacked, TreeInv
  <2> DEFINE files == Command(q).index.files
  <2>2. ASSUME ArtifactsExisted(q, files) PROVE ArtifactsExisted(q, files)'
    <3>1. PICK i \in since[q]..Len(trees) : ArtifactsOf(trees[i]) = files
      BY <2>2 DEF ArtifactsExisted
    <3>2. i \in since[q]..Len(trees') /\ trees'[i] = trees[i]
      BY <1>4, <2>1
    <3>3. ArtifactsOf(trees'[i]) = files
      BY <3>1, <3>2
    <3> QED  BY <1>1, <3>2, <3>3 DEF ArtifactsExisted
  <2> QED  BY <1>1, <1>6, <2>2 DEF RecordBacked
<1> QED  BY <1>1, <1>3, <1>5, <1>6 DEF TreeInv

LEMMA UnchangedKeepsTree ==
    ASSUME TreeInv, UNCHANGED vars
    PROVE  TreeInv'
<1>1. UNCHANGED <<script, pc, snaps, walk, reg, since, trees>>
  BY DEF vars
<1> QED  BY <1>1 DEF TreeInv, ScanOf, RecordBacked, ArtifactsExisted, Procs, Command

LEMMA InitTree == Init => TreeInv
<1> SUFFICES ASSUME Init PROVE TreeInv
  OBVIOUS
<1>1. /\ script \in Scripts /\ trees = <<script.tree>> /\ reg = {}
      /\ DOMAIN snaps = Procs /\ DOMAIN walk = Procs /\ DOMAIN since = Procs
      /\ \A p \in Procs : pc[p] = "idle" /\ snaps[p] = <<>>
  BY DEF Init
<1>2. DOMAIN script.tree = Paths /\ \A q \in Paths : script.tree[q].edit = 0
  BY <1>1, TreesAssumption
<1>3. IsSeq(trees) /\ Len(trees) = 1 /\ trees[1] = script.tree
  BY <1>1 DEF IsSeq
<1>4. History(trees)
  <2>1. \A i \in 1..Len(trees) : i = 1
    BY <1>3
  <2> QED  BY <1>2, <1>3, <2>1 DEF History
<1>5. \A p \in Procs : ScanOf(p)
  BY <1>1 DEF ScanOf, ScanAt, Scanning
<1> QED  BY <1>1, <1>4, <1>5 DEF TreeInv

LEMMA NextTree ==
    ASSUME Inv, TreeInv, [Next]_vars
    PROVE  TreeInv'
<1>1. CASE EditTree
  BY <1>1, EditKeepsTree
<1>2. CASE UNCHANGED vars
  BY <1>2, UnchangedKeepsTree
<1>3. ASSUME NEW p \in Procs, Step(p) PROVE TreeInv'
  BY <1>3, BeginKeepsTree, ComparingKeepsTree, EndingKeepsTree, DocumentsKeepTree, ObservingKeepsTree,
     ScanningKeepsTree, ObserveIndexStateKeepsTree DEF Step
<1> QED  BY <1>1, <1>2, <1>3 DEF Next

\* Backed records are earned ones, in the words of the documents.
LEMMA InvGivesEarned ==
    ASSUME Inv, TreeInv
    PROVE  RecordedIsEarned
<1> SUFFICES ASSUME NEW r \in reg
             PROVE  \E p \in Procs :
                      LET c == Command(p) IN
                      /\ pc[p] # "idle"
                      /\ c.op \in {"verify-attestation", "verify-release-index"}
                      /\ r \in Observations(c)
                      /\ CASE r.store \in {"trust", "rotation", "chain"} ->
                                BundleStands(c.bundle) /\ AttestationPolicyGenuine(c)
                           [] r.store \in {"release-authority", "release-chain"} -> ReleaseAuthorityGenuine(c)
                           [] r.store = "release-policy" -> ReleasePolicyGenuine(c)
                           [] r.store = "release-index" -> Genuine(c) /\ ArtifactsExisted(p, c.index.files)
  BY DEF RecordedIsEarned
<1>1. PICK p \in Procs : RecordBacked(p, r)
  BY DEF TreeInv
<1> DEFINE c == Command(p)
<1>2. /\ pc[p] # "idle" /\ Earns(c, r) /\ c.op \in Verifying /\ r \in Observations(c)
      /\ r.store = "release-index" => ArtifactsExisted(p, c.index.files)
  BY <1>1 DEF RecordBacked, Earns
<1>3. script \in Scripts /\ p \in DOMAIN script.commands /\ c = script.commands[p]
  BY DEF Inv, Types, Procs, Command
<1>4. CASE c.op = "verify-attestation"
  <2>1. c.persist /\ BundleOK(c) /\ TrustOf(c) = "ok" /\ r = attestationObservation(c)
    BY <1>2, <1>4 DEF Earns, Observations
  <2>2. c.mode \in SignedModes
    BY <1>3, <1>4, <2>1, ScriptsAssumption DEF SignedModes, Verifying
  <2>3. r.store \in {"trust", "rotation", "chain"}
    BY <2>1, <2>2 DEF SignedModes, attestationObservation, trustObservation, rotationObservation, chainObservation
  <2>4. BundleStands(c.bundle) /\ AttestationPolicyGenuine(c)
    BY <1>2, <1>3, <1>4, <2>1, <2>2, DocumentsMeaning
  <2> HIDE DEF c
  <2> QED  BY <1>2, <2>3, <2>4 DEF Verifying, c
<1>5. CASE c.op = "verify-release-index"
  <2>1. IndexOK(c)
    BY <1>2, <1>5 DEF Earns
  <2>2. /\ (c.mode # "direct" /\ IndexOK(c)) => ReleaseAuthorityGenuine(c)
        /\ (IndexOK(c) /\ PolicyOK(c)) => ReleasePolicyGenuine(c)
        /\ DocumentsOK(c) => Genuine(c)
    BY <1>2, <1>3, <1>5, DocumentsMeaning
  <2>3. \/ r = releasePolicyObservation(c) \/ r = releaseIndexObservation(c)
        \/ c.mode # "direct" /\ r = releaseAuthorityObservation(c)
    BY <1>2, <1>5 DEF Observations
  <2>4. CASE r = releasePolicyObservation(c)
    <3>1. r.store = "release-policy"
      BY <2>4 DEF releasePolicyObservation
    <3>2. ReleasePolicyGenuine(c)
      BY <1>2, <1>5, <2>1, <2>2, <3>1 DEF Earns
    <3> QED  BY <1>2, <3>1, <3>2 DEF Verifying
  <2>5. CASE r = releaseIndexObservation(c)
    <3>1. r.store = "release-index"
      BY <2>5 DEF releaseIndexObservation
    <3>2. Genuine(c)
      BY <1>2, <1>5, <2>1, <2>2, <3>1, ReleaseIsVerifying DEF Earns
    <3> QED  BY <1>2, <3>1, <3>2 DEF Verifying
  <2>6. CASE c.mode # "direct" /\ r = releaseAuthorityObservation(c)
    <3>1. r.store \in {"release-authority", "release-chain"}
      BY <2>6 DEF releaseAuthorityObservation
    <3>2. ReleaseAuthorityGenuine(c)
      BY <2>1, <2>2, <2>6
    <3> QED  BY <1>2, <3>1, <3>2 DEF Verifying
  <2> QED  BY <2>3, <2>4, <2>5, <2>6
<1> QED  BY <1>2, <1>4, <1>5 DEF Verifying

\* The durable stores hold only what a command had verified before it recorded
\* it, and an index only if its artifacts were all there at one moment.
THEOREM RecordingIsEarned == Spec => []RecordedIsEarned
<1>1. Init => Inv /\ TreeInv
  BY InitInv, InitTree
<1>2. Inv /\ TreeInv /\ [Next]_vars => Inv' /\ TreeInv'
  BY NextInv, NextTree
<1>3. Inv /\ TreeInv => RecordedIsEarned
  BY InvGivesEarned
<1> QED  BY <1>1, <1>2, <1>3, PTL DEF Spec

-----------------------------------------------------------------------------
(* What the walks of a source tree have seen. *)

\* The entry is of a content written before moment m ...
EntryBefore(e, m) == e.path \in Paths /\ e.digest.edit \in Nat /\ e.digest.edit < m

\* ... and it was looked at and read at moment m or later.
Visited(T, e, m) ==
    /\ e.path \in Paths
    /\ \E b \in m..Len(T) : \E a \in m..b :
         /\ T[a][e.path].kind = "file" /\ T[b][e.path].kind # "absent"
         /\ e = [path |-> e.path, stat |-> statOf(T[a][e.path]), digest |-> contentOf(T[b][e.path])]

Elements(s) == {s[j] : j \in 1..Len(s)}

\* What a walk knows of, visited or not, and what of it is in directory d.
Has(w, q) == \E i \in 1..Len(w.entries) : w.entries[i].path = q

Knows(w, q) == q \in Elements(w.todo) \/ Has(w, q)

SeenIn(w, d) == {q \in Paths : Within[q] = d /\ Knows(w, q)}

\* Directory d is still to be listed, or was listed at moment l or later.
ListedAt(T, w, l, d) ==
    IF d \in Elements(w.todo) THEN SeenIn(w, d) = {}
    ELSE \E j \in l..Len(T) : SeenIn(w, d) = InDirectory(T[j], d)

\* No directory is to be listed twice.
Once(s) == \A j, k \in 1..Len(s) : s[j] = s[k] /\ s[j] \in Directories => j = k

\* The stat at hand is of the file being visited, and of moment l or later.
StatAt(T, w, l) ==
    w.stat = {} \/ (w.todo # <<>> /\ Head(w.todo) \in Paths /\ \E a \in l..Len(T) :
      /\ T[a][Head(w.todo)].kind = "file" /\ w.stat = {statOf(T[a][Head(w.todo)])})

\* A walk that began at moment l.
Walking(T, w, l) ==
    /\ DOMAIN w = {"todo", "stat", "entries", "ok"}
    /\ w.todo \in Seq(Paths \cup Directories) /\ IsSeq(w.entries)
    /\ \A i \in 1..Len(w.entries) : Visited(T, w.entries[i], l)
    /\ Once(w.todo)
    /\ \A d \in Directories : ListedAt(T, w, l, d)
    /\ StatAt(T, w, l)

\* What a walk found.
Walked(T, tree, l) ==
    /\ IsSeq(tree)
    /\ \A k \in DOMAIN tree : Visited(T, tree[k], l)
    /\ \A d \in Directories : \E j \in l..Len(T) : NamesIn(tree, d) = InDirectory(T[j], d)

\* The files of a snapshot are those of moment m, and each directory had
\* exactly these names then or later, up to moment u.
WasThere(T, tree, m, u) ==
    /\ \A k \in DOMAIN tree : T[m][tree[k].path].kind # "absent" /\ tree[k] = EntryOf(T[m], tree[k].path)
    /\ \A d \in Directories : \E j \in m..u : NamesIn(tree, d) = InDirectory(T[j], d)

SourceSteps == {"list", "walk", "plan", "lock", "package", "runner"}

\* The tree was what the snapshots say at moment m, the manifest was read at
\* moment r and the walk under way, or one after it, began at moment l.
SnapsAt(T, s, taken, w, read, m, r, l) ==
    /\ m <= r /\ r <= l
    /\ IsSeq(taken)
    /\ s \in {"list", "walk"} => Len(taken) <= 2
    /\ s \in {"plan", "lock", "package"} => Len(taken) = 2
    /\ s \in {"runner", "build"} => Len(taken) = 3
    /\ \A i \in 1..Len(taken) : IsSeq(taken[i].tree) /\ taken[i].tree = taken[1].tree
    /\ s = "walk" => Walking(T, w, l)
    /\ Len(taken) = 1 => \A k \in DOMAIN taken[1].tree : EntryBefore(taken[1].tree[k], l)
    /\ Len(taken) >= 2 => /\ WasThere(T, taken[1].tree, m, Len(T))
                          /\ \A k \in DOMAIN taken[1].tree : EntryBefore(taken[1].tree[k], m)
    /\ s = "plan" => Lists(taken[1].tree, ManifestPath)
    /\ read # {} => /\ Len(taken) >= 2 /\ Lists(taken[1].tree, ManifestPath)
                    /\ T[r][ManifestPath].kind = "file"
                    /\ read = {PlanOf(contentOf(T[r][ManifestPath]), taken[1])}
    /\ (Len(taken) = 3 /\ read # {}) => contentOf(T[m][ManifestPath]) = contentOf(T[r][ManifestPath])

SourceAt(T, s, taken, w, from, read, derived) ==
    s \in SourceSteps \/ (s = "build" /\ derived) =>
        \E m, r, l \in from..Len(T) : SnapsAt(T, s, taken, w, read, m, r, l)

Derived(c) == c.op = "attest" /\ c.evidence = "derived"

SourceOf(p) == SourceAt(trees, pc[p], snaps[p], walk[p], since[p], plan[p], Derived(Command(p)))

\* What an answer given at moment u rests on was so at moment i.
StandsAt(p, about, evaluation, i, u) ==
    /\ u \in i..Len(trees)
    /\ IF Command(p).op \in {"verify-release-index", "sign-release-index"}
       THEN about.tree = ArtifactsOf(trees[i]) ELSE WasThere(trees, about.tree, i, u)
    /\ about.manifest \subseteq {contentOf(trees[i][ManifestPath])}
    /\ evaluation = "current" =>
         /\ Claims(p).source.tree = about.tree
         /\ Claims(p).plan = PlanOf(contentOf(trees[i][ManifestPath]), about)
    /\ evaluation = "fresh" =>
         DerivedClaims(p).provenance = Derivation([tree |-> about.tree]).provenance

AboutInv ==
    /\ DOMAIN plan = Procs
    /\ \A p \in Procs :
         /\ pc[p] \in BlankSteps \cup {"resolve"} => snaps[p] = <<>> /\ plan[p] = {}
         /\ (pc[p] \in Comparing /\ Command(p).op = "verify-attestation") => Command(p).current
         /\ SourceOf(p)
         /\ pc[p] # "done" => result[p].about = {} /\ result[p].evaluation = "none"
         /\ \A about \in result[p].about :
              \E i \in since[p]..result[p].until :
                i <= Len(trees) /\ StandsAt(p, about, result[p].evaluation, i, result[p].until)

\* What sorting does not do: lose, add or repeat a name.
LEMMA SortedListing ==
    ASSUME NEW S \in SUBSET (Paths \cup Directories)
    PROVE  /\ sorted[S] \in Seq(S) /\ IsSeq(sorted[S]) /\ Len(sorted[S]) = Cardinality(S)
           /\ DOMAIN sorted[S] = 1..Cardinality(S)
           /\ Elements(sorted[S]) = S
           /\ Once(sorted[S])
<1> DEFINE s == sorted[S]
           n == Cardinality(S)
<1>1. /\ n \in Nat /\ s \in [1..n -> S]
      /\ \A i, j \in 1..n : i < j => s[i] < s[j]
  BY SortedFacts
<1>2. S \subseteq Nat /\ IsFiniteSet(S)
  <2>1. Paths \cup Directories \subseteq Nat /\ IsFiniteSet(Paths) /\ IsFiniteSet(Directories)
    BY PathsAssumption
  <2>2. IsFiniteSet(Paths \cup Directories)
    BY <2>1, FS_Union
  <2> QED  BY <2>1, <2>2, FS_Subset
<1>3. n = Cardinality(S)
  OBVIOUS
<1> HIDE DEF s, n
<1>4. s \in Seq(S) /\ Len(s) = n /\ DOMAIN s = 1..n
  BY <1>1
<1>5. IsSeq(s)
  BY <1>4, SequenceIsSeq
<1>6. \A i, j \in 1..n : s[i] = s[j] => i = j
  <2> SUFFICES ASSUME NEW i \in 1..n, NEW j \in 1..n, s[i] = s[j], i # j PROVE FALSE
    OBVIOUS
  <2>1. s[i] \in Nat /\ s[j] \in Nat
    BY <1>1, <1>2
  <2>2. (i < j => s[i] < s[j]) /\ (j < i => s[j] < s[i])
    BY <1>1
  <2>3. i < j \/ j < i
    BY <1>1
  <2> QED  BY <2>1, <2>2, <2>3
<1>7. Elements(s) = S
  <2>1. s \in Injection(1..n, S)
    BY <1>1, <1>6 DEF Injection, IsInjective
  <2>2. Cardinality(1..n) = n
    BY <1>1, FS_Interval
  <2>3. s \in Surjection(1..n, S)
    BY <1>2, <1>3, <2>1, <2>2, FS_Injection
  <2> QED  BY <1>1, <1>4, <2>3 DEF Surjection, Elements
<1>8. Once(s)
  BY <1>4, <1>6 DEF Once
<1> QED  BY <1>3, <1>4, <1>5, <1>7, <1>8 DEF s, n

LEMMA ElementsOf ==
    ASSUME NEW S, NEW s \in Seq(S)
    PROVE  /\ Elements(s) \subseteq S /\ Len(s) \in Nat
           /\ s # <<>> => /\ Head(s) = s[1] /\ Head(s) \in Elements(s) /\ Head(s) \in S /\ Tail(s) \in Seq(S)
                          /\ Elements(s) = {Head(s)} \cup Elements(Tail(s))
<1>1. Elements(s) \subseteq S /\ Len(s) \in Nat
  BY DEF Elements
<1>2. ASSUME s # <<>>
      PROVE  /\ Head(s) = s[1] /\ Head(s) \in Elements(s) /\ Head(s) \in S /\ Tail(s) \in Seq(S)
             /\ Elements(s) = {Head(s)} \cup Elements(Tail(s))
  <2>1. /\ Head(s) = s[1] /\ Head(s) \in S /\ Tail(s) \in Seq(S)
        /\ Len(s) \in Nat \ {0} /\ Len(Tail(s)) = Len(s) - 1
        /\ \A j \in 1..Len(Tail(s)) : Tail(s)[j] = s[j + 1]
    BY <1>2
  <2> DEFINE t == Tail(s)
             n == Len(s)
  <2> HIDE DEF t, n
  <2>2. n \in Nat \ {0} /\ Len(t) = n - 1 /\ \A j \in 1..Len(t) : t[j] = s[j + 1]
    BY <2>1 DEF t, n
  <2>3. 1 \in 1..n /\ (\A j \in 2..n : j - 1 \in 1..Len(t) /\ s[j] = t[j - 1])
        /\ (\A j \in 1..Len(t) : j + 1 \in 1..n) /\ \A j \in 1..n : j = 1 \/ j \in 2..n
    BY <2>2
  <2>4. {s[j] : j \in 1..n} = {s[1]} \cup {t[j] : j \in 1..Len(t)}
    <3>1. ASSUME NEW j \in 1..n PROVE s[j] \in {s[1]} \cup {t[k] : k \in 1..Len(t)}
      BY <2>3
    <3>2. ASSUME NEW k \in 1..Len(t) PROVE t[k] \in {s[j] : j \in 1..n}
      BY <2>2, <2>3
    <3>3. s[1] \in {s[j] : j \in 1..n}
      BY <2>3
    <3> QED  BY <3>1, <3>2, <3>3
  <2> QED  BY <2>1, <2>3, <2>4 DEF Elements, t, n
<1> QED  BY <1>1, <1>2

LEMMA OnceTail ==
    ASSUME NEW S, NEW s \in Seq(S), s # <<>>, Once(s)
    PROVE  Once(Tail(s)) /\ (Head(s) \in Directories => Head(s) \notin Elements(Tail(s)))
<1> DEFINE t == Tail(s)
           n == Len(s)
<1>1. /\ Head(s) = s[1] /\ n \in Nat \ {0} /\ Len(t) = n - 1
      /\ \A j \in 1..Len(t) : t[j] = s[j + 1]
  OBVIOUS
<1> HIDE DEF t, n
<1>2. \A j \in 1..Len(t) : j + 1 \in 1..n /\ j + 1 # 1 /\ 1 \in 1..n
  BY <1>1
<1>3. \A j, k \in 1..Len(t) : j + 1 = k + 1 => j = k
  BY <1>1
<1>4. Once(t)
  <2> SUFFICES ASSUME NEW j \in 1..Len(t), NEW k \in 1..Len(t), t[j] = t[k], t[j] \in Directories PROVE j = k
    BY DEF Once
  <2>1. s[j + 1] = s[k + 1] /\ s[j + 1] \in Directories /\ j + 1 \in 1..n /\ k + 1 \in 1..n
    BY <1>1, <1>2
  <2>2. j + 1 = k + 1
    BY <2>1 DEF Once, n
  <2> QED  BY <1>3, <2>2
<1>5. ASSUME Head(s) \in Directories, NEW j \in 1..Len(t), t[j] = Head(s) PROVE FALSE
  <2>1. s[j + 1] = s[1] /\ s[1] \in Directories /\ j + 1 \in 1..n /\ 1 \in 1..n /\ j + 1 # 1
    BY <1>1, <1>2, <1>5
  <2> QED  BY <2>1 DEF Once, n
<1> QED  BY <1>4, <1>5 DEF Elements, t

LEMMA OnceConcat ==
    ASSUME NEW a \in Seq(Paths), NEW b \in Seq(Paths \cup Directories), Once(b)
    PROVE  /\ a \o b \in Seq(Paths \cup Directories) /\ Once(a \o b)
           /\ Elements(a \o b) = Elements(a) \cup Elements(b)
<1> DEFINE c == a \o b
           x == Len(a)
           y == Len(b)
<1>1. /\ c \in Seq(Paths \cup Directories) /\ x \in Nat /\ y \in Nat /\ Len(c) = x + y
      /\ \A j \in 1..x : c[j] = a[j] /\ a[j] \in Paths
      /\ \A j \in 1..y : c[x + j] = b[j]
  <2>1. a \in Seq(Paths \cup Directories)
    OBVIOUS
  <2> QED  BY <2>1
<1>2. Paths \cap Directories = {}
  BY PathsAssumption
<1> HIDE DEF c, x, y
<1>3. \A j \in 1..Len(c) : j \in 1..x \/ (j - x \in 1..y /\ x + (j - x) = j)
  BY <1>1
<1>4. Once(c)
  <2> SUFFICES ASSUME NEW j \in 1..Len(c), NEW k \in 1..Len(c), c[j] = c[k], c[j] \in Directories PROVE j = k
    BY DEF Once
  <2>1. j - x \in 1..y /\ k - x \in 1..y /\ x + (j - x) = j /\ x + (k - x) = k
    BY <1>1, <1>2, <1>3
  <2>2. c[j] = b[j - x] /\ c[k] = b[k - x]
    BY <1>1, <2>1
  <2>3. j - x = k - x
    BY <2>1, <2>2 DEF Once, y
  <2> QED  BY <2>1, <2>3
<1>5. Elements(c) = Elements(a) \cup Elements(b)
  <2>1. \A j \in 1..x : j \in 1..Len(c)
    BY <1>1
  <2>2. \A j \in 1..y : x + j \in 1..Len(c)
    BY <1>1
  <2>3. ASSUME NEW j \in 1..Len(c) PROVE c[j] \in Elements(a) \cup Elements(b)
    <3>1. CASE j \in 1..x
      BY <1>1, <3>1 DEF Elements, x
    <3>2. CASE j - x \in 1..y /\ x + (j - x) = j
      BY <1>1, <3>2 DEF Elements, y
    <3> QED  BY <1>3, <3>1, <3>2
  <2>4. Elements(c) \subseteq Elements(a) \cup Elements(b)
    BY <2>3 DEF Elements
  <2>5. Elements(a) \subseteq Elements(c)
    BY <1>1, <2>1 DEF Elements, x
  <2>6. Elements(b) \subseteq Elements(c)
    BY <1>1, <2>2 DEF Elements, y
  <2> QED  BY <2>4, <2>5, <2>6
<1> QED  BY <1>1, <1>4, <1>5 DEF c

LEMMA EntryStaysBefore ==
    ASSUME NEW e, NEW m \in Nat, NEW n \in Nat, m <= n, EntryBefore(e, m)
    PROVE  EntryBefore(e, n)
BY DEF EntryBefore

\* What was read was written before.
LEMMA VisitedBefore ==
    ASSUME NEW T, History(T), NEW l \in 1..Len(T), NEW e, Visited(T, e, l)
    PROVE  EntryBefore(e, Len(T))
<1>1. Len(T) \in Nat
  BY DEF History, IsSeq
<1>2. PICK b \in l..Len(T) : \E a \in l..b :
         /\ e.path \in Paths /\ T[b][e.path].kind # "absent"
         /\ e = [path |-> e.path, stat |-> statOf(T[a][e.path]), digest |-> contentOf(T[b][e.path])]
  BY DEF Visited
<1>3. T[b][e.path].edit \in Nat /\ T[b][e.path].edit < b
  BY <1>1, <1>2 DEF History
<1>4. e.digest.edit = T[b][e.path].edit
  BY <1>2 DEF contentOf
<1> QED  BY <1>1, <1>2, <1>3, <1>4 DEF EntryBefore

\* An old content read after moment m was there at moment m, and at every
\* moment until it was read.
LEMMA OldContentStayed ==
    ASSUME NEW T, History(T), NEW l \in 1..Len(T), NEW e, Visited(T, e, l),
           NEW m \in 1..l, EntryBefore(e, m)
    PROVE  /\ T[m][e.path].kind # "absent"
           /\ e = [path |-> e.path, stat |-> statOf(T[m][e.path]), digest |-> contentOf(T[m][e.path])]
           /\ \A i \in m..l : T[i][e.path] = T[m][e.path]
<1> DEFINE q == e.path
<1>1. Len(T) \in Nat
  BY DEF History, IsSeq
<1>2. PICK b \in l..Len(T) : \E a \in l..b :
         /\ q \in Paths /\ T[a][q].kind = "file" /\ T[b][q].kind # "absent"
         /\ e = [path |-> q, stat |-> statOf(T[a][q]), digest |-> contentOf(T[b][q])]
  BY DEF Visited
<1>3. PICK a \in l..b :
         /\ q \in Paths /\ T[a][q].kind = "file" /\ T[b][q].kind # "absent"
         /\ e = [path |-> q, stat |-> statOf(T[a][q]), digest |-> contentOf(T[b][q])]
  BY <1>2
<1>4. T[b][q].edit \in Nat /\ T[b][q].edit < m
  BY <1>3 DEF contentOf, EntryBefore
<1>5. ASSUME NEW i \in m..b PROVE T[i][q] = T[b][q]
  <2>1. b \in 1..Len(T) /\ i \in 1..b /\ T[b][q].edit < i
    BY <1>1, <1>4
  <2> QED  BY <1>3, <2>1 DEF History
<1>6. m \in m..b /\ a \in m..b /\ \A i \in m..l : i \in m..b
  BY <1>1
<1>7. T[m][q] = T[b][q] /\ T[a][q] = T[b][q] /\ \A i \in m..l : T[i][q] = T[b][q]
  BY <1>5, <1>6
<1> HIDE DEF q
<1>8. T[m][q].kind # "absent" /\ \A i \in m..l : T[i][q] = T[m][q]
  BY <1>3, <1>7
<1>9. e = [path |-> q, stat |-> statOf(T[m][q]), digest |-> contentOf(T[m][q])]
  BY <1>3, <1>7
<1> QED  BY <1>8, <1>9 DEF q

LEMMA VisitedGrows ==
    ASSUME NEW T, IsSeq(T), NEW tree, NEW e, NEW m \in Nat \ {0}, Visited(T, e, m)
    PROVE  Visited(Append(T, tree), e, m)
<1>1. PICK b \in m..Len(T) : \E a \in m..b :
         /\ T[a][e.path].kind = "file" /\ T[b][e.path].kind # "absent"
         /\ e = [path |-> e.path, stat |-> statOf(T[a][e.path]), digest |-> contentOf(T[b][e.path])]
  BY DEF Visited
<1>2. PICK a \in m..b :
         /\ T[a][e.path].kind = "file" /\ T[b][e.path].kind # "absent"
         /\ e = [path |-> e.path, stat |-> statOf(T[a][e.path]), digest |-> contentOf(T[b][e.path])]
  BY <1>1
<1> DEFINE U == Append(T, tree)
<1>3. Len(U) = Len(T) + 1 /\ Len(T) \in Nat /\ \A i \in 1..Len(T) : U[i] = T[i]
  BY AppendIsSeq
<1> HIDE DEF U
<1>4. b \in m..Len(U) /\ a \in m..b /\ U[a] = T[a] /\ U[b] = T[b]
  BY <1>3
<1>5. Visited(U, e, m)
  BY <1>2, <1>4 DEF Visited
<1> QED  BY <1>5 DEF U

LEMMA WalkingGrows ==
    ASSUME NEW T, IsSeq(T), NEW tree, NEW w, NEW l \in 1..Len(T), Walking(T, w, l)
    PROVE  Walking(Append(T, tree), w, l)
<1> DEFINE U == Append(T, tree)
<1>1. Len(U) = Len(T) + 1 /\ Len(T) \in Nat /\ \A i \in 1..Len(T) : U[i] = T[i]
  BY AppendIsSeq
<1>2. \A e : Visited(T, e, l) => Visited(U, e, l)
  BY VisitedGrows
<1> HIDE DEF U
<1>3. U[l] = T[l] /\ \A a \in l..Len(T) : a \in l..Len(U) /\ U[a] = T[a]
  BY <1>1
<1>4. StatAt(U, w, l)
  <2>1. StatAt(T, w, l)
    BY DEF Walking
  <2> QED  BY <1>3, <2>1 DEF StatAt
<1>6. \A d \in Directories : ListedAt(U, w, l, d)
  <2>1. \A d \in Directories : ListedAt(T, w, l, d)
    BY DEF Walking
  <2> QED  BY <1>3, <2>1 DEF ListedAt
<1>5. Walking(U, w, l)
  BY <1>2, <1>4, <1>6 DEF Walking
<1> QED  BY <1>5 DEF U

LEMMA TailFacts ==
    ASSUME NEW S, NEW s \in Seq(S), s # <<>>
    PROVE  /\ Head(s) = s[1] /\ Head(s) \in S /\ Tail(s) \in Seq(S)
           /\ Len(s) \in Nat \ {0} /\ Len(Tail(s)) = Len(s) - 1
           /\ \A j \in 1..Len(Tail(s)) : Tail(s)[j] = s[j + 1]
OBVIOUS

\* The root is listed when a walk begins, and says of no directory that is not
\* there more than that it is not.
LEMMA WalkBegins ==
    ASSUME NEW T, NEW l \in Nat, l \in l..Len(T), NEW v \in fetchList(T[l])
    PROVE  Walking(T, v, l)
<1> DEFINE tree == T[l]
<1>1. PICK there \in SUBSET (Directories \ {Root}) :
        Holding(tree) \subseteq there /\ v = [NoWalk EXCEPT !.todo = sorted[InDirectory(tree, Root) \cup there]]
  BY DEF fetchList
<1> DEFINE S == InDirectory(tree, Root) \cup there
<1>2. /\ DOMAIN v = {"todo", "stat", "entries", "ok"} /\ v.todo = sorted[S] /\ v.entries = <<>> /\ v.stat = {}
  BY <1>1 DEF NoWalk
<1>3. InDirectory(tree, Root) \subseteq Paths /\ there \subseteq Directories
  BY DEF InDirectory
<1> HIDE DEF S
<1>4. S \in SUBSET (Paths \cup Directories)
  BY <1>3 DEF S
<1>5. sorted[S] \in Seq(S) /\ Elements(sorted[S]) = S /\ Once(sorted[S])
  BY <1>4, SortedListing
<1>6. v.todo \in Seq(Paths \cup Directories) /\ Elements(v.todo) = S /\ Once(v.todo)
  BY <1>2, <1>4, <1>5
<1>7. IsSeq(v.entries) /\ Len(v.entries) = 0 /\ 1..0 = {}
  BY <1>2, EmptyIsSeq
<1>8. ASSUME NEW d \in Directories PROVE ListedAt(T, v, l, d)
  <2>1. SeenIn(v, d) = {q \in Paths : Within[q] = d /\ q \in S}
    BY <1>6, <1>7 DEF SeenIn, Knows, Has
  <2>2. Paths \cap Directories = {}
    BY PathsAssumption
  <2>3. SeenIn(v, d) = {q \in InDirectory(tree, Root) : Within[q] = d}
    BY <1>3, <2>1, <2>2 DEF S
  <2>7. d \in Elements(v.todo) <=> d \in there
    BY <1>3, <1>6, <2>2 DEF S
  <2>4. CASE d = Root
    <3>1. d \notin there
      BY <2>4
    <3>2. SeenIn(v, d) = InDirectory(T[l], d)
      BY <2>3, <2>4 DEF InDirectory
    <3> QED  BY <2>7, <3>1, <3>2 DEF ListedAt
  <2>5. CASE d # Root /\ d \in there
    <3>1. SeenIn(v, d) = {}
      BY <2>3, <2>5 DEF InDirectory
    <3> QED  BY <2>5, <2>7, <3>1 DEF ListedAt
  <2>6. CASE d # Root /\ d \notin there
    <3>1. \A q \in Paths : Within[q] = d => tree[q].kind = "absent"
      BY <1>1, <2>6 DEF Holding
    <3>2. InDirectory(tree, d) = {} /\ SeenIn(v, d) = {}
      BY <2>3, <2>6, <3>1 DEF InDirectory
    <3> QED  BY <2>6, <2>7, <3>2 DEF ListedAt
  <2> QED  BY <2>4, <2>5, <2>6
<1>9. StatAt(T, v, l)
  BY <1>2 DEF StatAt
<1> QED  BY <1>2, <1>6, <1>7, <1>8, <1>9 DEF Walking

\* A directory the walk comes to is listed at this moment.
LEMMA WalkLists ==
    ASSUME NEW T, NEW n \in Nat, n = Len(T), NEW w, NEW l \in 1..n, Walking(T, w, l), w.todo # <<>>,
           Head(w.todo) \in Directories, NEW v \in listDirectory(w, T[n]), v.ok
    PROVE  Walking(T, v, l)
<1> DEFINE dir == Head(w.todo)
           here == InDirectory(T[n], dir)
           rest == Tail(w.todo)
<1>1. /\ DOMAIN w = {"todo", "stat", "entries", "ok"}
      /\ w.todo \in Seq(Paths \cup Directories) /\ IsSeq(w.entries)
      /\ \A i \in 1..Len(w.entries) : Visited(T, w.entries[i], l)
      /\ Once(w.todo)
      /\ \A d \in Directories : ListedAt(T, w, l, d)
      /\ StatAt(T, w, l)
  BY DEF Walking
<1>2. v = [w EXCEPT !.todo = sorted[here] \o rest]
  <2>1. [w EXCEPT !.ok = FALSE].ok = FALSE
    BY <1>1
  <2> QED  BY <2>1 DEF listDirectory
<1>3. /\ DOMAIN v = {"todo", "stat", "entries", "ok"} /\ v.todo = sorted[here] \o rest
      /\ v.entries = w.entries /\ v.stat = w.stat
  BY <1>1, <1>2
<1>4. here \subseteq Paths /\ \A q \in here : Within[q] = dir
  BY DEF InDirectory
<1> HIDE DEF here
<1>5. sorted[here] \in Seq(Paths) /\ Elements(sorted[here]) = here
  <2>1. here \in SUBSET (Paths \cup Directories)
    BY <1>4
  <2>2. sorted[here] \in Seq(here) /\ Elements(sorted[here]) = here
    BY <2>1, SortedListing
  <2> QED  BY <1>4, <2>2
<1>6. /\ rest \in Seq(Paths \cup Directories) /\ Elements(w.todo) = {dir} \cup Elements(rest)
      /\ Once(rest) /\ dir \notin Elements(rest)
  BY <1>1, ElementsOf, OnceTail
<1>7. Paths \cap Directories = {}
  BY PathsAssumption
<1> HIDE DEF dir, rest
<1>8. /\ v.todo \in Seq(Paths \cup Directories) /\ Once(v.todo)
      /\ Elements(v.todo) = here \cup Elements(rest)
  BY <1>3, <1>5, <1>6, OnceConcat
<1>9. w.stat = {}
  BY <1>1, <1>7 DEF StatAt, dir
<1>10. ASSUME NEW d \in Directories PROVE ListedAt(T, v, l, d)
  <2>1. ListedAt(T, w, l, d)
    BY <1>1
  <2>2. CASE d = dir
    <3>1. SeenIn(w, d) = {}
      BY <1>6, <2>1, <2>2 DEF ListedAt
    <3>2. SeenIn(v, d) = here
      <4>1. \A q \in Paths : Within[q] = d => ~Knows(w, q)
        BY <3>1 DEF SeenIn
      <4>2. \A q \in Paths : Within[q] = d => q \notin Elements(rest) /\ ~Has(v, q)
        BY <1>3, <1>6, <4>1 DEF Knows, Has
      <4>3. \A q \in Paths : (Within[q] = d /\ Knows(v, q)) <=> q \in here
        BY <1>4, <1>8, <2>2, <4>2 DEF Knows
      <4> QED  BY <1>4, <4>3 DEF SeenIn
    <3>3. d \notin Elements(v.todo)
      BY <1>4, <1>6, <1>7, <1>8, <2>2
    <3>4. n \in l..Len(T) /\ SeenIn(v, d) = InDirectory(T[n], d)
      BY <2>2, <3>2 DEF here
    <3> QED  BY <3>3, <3>4 DEF ListedAt
  <2>3. CASE d # dir
    <3>1. SeenIn(v, d) = SeenIn(w, d)
      <4>1. \A q \in Paths : Within[q] = d => q \notin here /\ q # dir
        BY <1>4, <1>7, <2>3 DEF dir
      <4>2. \A q \in Paths : Within[q] = d => (Knows(v, q) <=> Knows(w, q))
        BY <1>3, <1>6, <1>8, <4>1 DEF Knows, Has
      <4> QED  BY <4>2 DEF SeenIn
    <3>2. d \in Elements(w.todo) <=> d \in Elements(v.todo)
      BY <1>4, <1>6, <1>7, <1>8, <2>3
    <3> QED  BY <2>1, <3>1, <3>2 DEF ListedAt
  <2> QED  BY <2>2, <2>3
<1> QED  BY <1>1, <1>3, <1>8, <1>9, <1>10 DEF Walking, StatAt

\* A file is looked at, and then read.
LEMMA WalkReads ==
    ASSUME NEW T, NEW n \in Nat, n = Len(T), NEW w, NEW l \in 1..n, Walking(T, w, l), w.todo # <<>>,
           Head(w.todo) \in Paths,
           NEW v, v = IF w.stat = {} THEN fetchStat(w, T[n]) ELSE digestFile(w, T[n]), v.ok
    PROVE  Walking(T, v, l)
<1> DEFINE q == Head(w.todo)
<1>1. n \in l..n
  OBVIOUS
<1>2. /\ DOMAIN w = {"todo", "stat", "entries", "ok"}
      /\ w.todo \in Seq(Paths \cup Directories) /\ IsSeq(w.entries)
      /\ \A i \in 1..Len(w.entries) : Visited(T, w.entries[i], l)
      /\ Once(w.todo)
      /\ \A d \in Directories : ListedAt(T, w, l, d)
      /\ StatAt(T, w, l)
  BY DEF Walking
<1>4. CASE w.stat = {}
  <2>1. T[n][q].kind = "file"
    <3>1. [w EXCEPT !.ok = FALSE].ok = FALSE
      BY <1>2
    <3> QED  BY <1>4, <3>1 DEF fetchStat
  <2>2. v = [w EXCEPT !.stat = {statOf(T[n][q])}]
    BY <1>4, <2>1 DEF fetchStat
  <2>3. /\ DOMAIN v = {"todo", "stat", "entries", "ok"} /\ v.todo = w.todo /\ v.entries = w.entries
        /\ v.stat = {statOf(T[n][q])}
    BY <1>2, <2>2
  <2>4. StatAt(T, v, l)
    BY <1>1, <2>1, <2>3 DEF StatAt
  <2>5. \A d \in Directories : ListedAt(T, v, l, d)
    <3>1. \A d : SeenIn(v, d) = SeenIn(w, d)
      BY <2>3 DEF SeenIn, Knows, Has
    <3> QED  BY <1>2, <2>3, <3>1 DEF ListedAt
  <2> QED  BY <1>2, <2>3, <2>4, <2>5 DEF Walking
<1>5. CASE w.stat # {}
  <2>1. PICK a \in l..n : T[a][q].kind = "file" /\ w.stat = {statOf(T[a][q])}
    BY <1>2, <1>5 DEF StatAt
  <2> DEFINE x == statOf(T[a][q])
             e == [path |-> q, stat |-> x, digest |-> contentOf(T[n][q])]
  <2>2. (CHOOSE s \in w.stat : TRUE) = x
    BY <2>1
  <2>3. T[n][q].kind # "absent"
    <3>1. [w EXCEPT !.ok = FALSE].ok = FALSE
      BY <1>2
    <3> QED  BY <1>5, <3>1 DEF digestFile
  <2>4. v = [w EXCEPT !.todo = Tail(@), !.stat = {}, !.entries = Append(@, e)]
    BY <1>5, <2>2, <2>3 DEF digestFile
  <2>5. Visited(T, e, l) /\ e.path = q
    <3>1. e.path = q
      OBVIOUS
    <3>2. n \in l..Len(T) /\ a \in l..n
      BY <1>1, <2>1
    <3> QED  BY <2>1, <2>3, <3>1, <3>2 DEF Visited
  <2> HIDE DEF e
  <2>6. /\ DOMAIN v = {"todo", "stat", "entries", "ok"} /\ v.todo = Tail(w.todo)
        /\ v.entries = Append(w.entries, e) /\ v.stat = {}
    BY <1>2, <2>4
  <2> DEFINE k == Len(w.entries)
  <2>7. /\ IsSeq(v.entries) /\ Len(v.entries) = k + 1 /\ k \in Nat
        /\ \A i \in 1..k : v.entries[i] = w.entries[i]
        /\ v.entries[k + 1] = e
    <3> DEFINE old == w.entries
    <3>1. IsSeq(old) /\ v.entries = Append(old, e)
      BY <1>2, <2>6
    <3> HIDE DEF old
    <3>2. /\ IsSeq(Append(old, e)) /\ Len(Append(old, e)) = Len(old) + 1 /\ Len(old) \in Nat
          /\ \A i \in 1..Len(old) : Append(old, e)[i] = old[i]
          /\ Append(old, e)[Len(old) + 1] = e
      BY <3>1, AppendIsSeq
    <3> QED  BY <3>1, <3>2 DEF old
  <2>8. /\ v.todo \in Seq(Paths \cup Directories) /\ Elements(w.todo) = {q} \cup Elements(v.todo)
        /\ Once(v.todo)
    <3> DEFINE todo == w.todo
    <3>1. todo \in Seq(Paths \cup Directories) /\ todo # <<>> /\ Once(todo)
      BY <1>2
    <3> HIDE DEF todo
    <3>2. Tail(todo) \in Seq(Paths \cup Directories) /\ Elements(todo) = {Head(todo)} \cup Elements(Tail(todo))
      BY <3>1, ElementsOf
    <3>3. Once(Tail(todo))
      BY <3>1, OnceTail
    <3> QED  BY <2>6, <3>2, <3>3 DEF todo
  <2> HIDE DEF k, q
  <2>9. \A i \in 1..(k + 1) : i \in 1..k \/ i = k + 1
    BY <2>7
  <2>10. \A i \in 1..k : i \in 1..(k + 1)
    BY <2>7
  <2>11. k + 1 \in 1..(k + 1)
    BY <2>7
  <2>12. \A i \in 1..Len(v.entries) : Visited(T, v.entries[i], l)
    BY <1>2, <2>5, <2>7, <2>9 DEF k
  <2>13. \A y : Has(v, y) <=> (y = q \/ Has(w, y))
    BY <2>5, <2>7, <2>9, <2>10, <2>11 DEF k, Has
  <2>14. ASSUME NEW d \in Directories PROVE ListedAt(T, v, l, d)
    <3>1. SeenIn(v, d) = SeenIn(w, d)
      <4>1. ASSUME NEW y PROVE Knows(v, y) <=> Knows(w, y)
        <5>1. y \in Elements(w.todo) <=> (y = q \/ y \in Elements(v.todo))
          BY <2>8
        <5> QED  BY <2>13, <5>1 DEF Knows
      <4> QED  BY <4>1 DEF SeenIn
    <3>2. d # q
      BY PathsAssumption DEF q
    <3>3. d \in Elements(w.todo) <=> d \in Elements(v.todo)
      BY <2>8, <3>2
    <3>4. ListedAt(T, w, l, d)
      BY <1>2
    <3> QED  BY <3>1, <3>3, <3>4 DEF ListedAt
  <2>15. StatAt(T, v, l)
    BY <2>6 DEF StatAt
  <2> QED  BY <2>6, <2>7, <2>8, <2>12, <2>14, <2>15 DEF Walking
<1> QED  BY <1>4, <1>5

LEMMA WalkVisits ==
    ASSUME NEW T, History(T), NEW w, NEW l \in 1..Len(T), Walking(T, w, l), w.todo # <<>>,
           NEW v \in Fetch(w, Last(T)), v.ok
    PROVE  Walking(T, v, l)
<1> DEFINE n == Len(T)
<1>1. n \in Nat /\ Last(T) = T[n] /\ l \in 1..n
  BY DEF History, IsSeq, Last
<1>2. Head(w.todo) \in Paths \cup Directories
  <2>1. w.todo \in Seq(Paths \cup Directories)
    BY DEF Walking
  <2> QED  BY <2>1, ElementsOf
<1>3. CASE Head(w.todo) \in Directories
  <2>1. v \in listDirectory(w, T[n])
    BY <1>1, <1>3 DEF Fetch
  <2> QED  BY <1>1, <1>3, <2>1, WalkLists
<1>4. CASE Head(w.todo) \notin Directories
  <2>1. v = IF w.stat = {} THEN fetchStat(w, T[n]) ELSE digestFile(w, T[n])
    BY <1>1, <1>4 DEF Fetch
  <2> QED  BY <1>1, <1>2, <1>4, <2>1, WalkReads
<1> QED  BY <1>3, <1>4

\* Sorting the entries neither adds nor loses a path.
LEMMA InventoryFacts ==
    ASSUME NEW E, IsSeq(E), \A i \in 1..Len(E) : E[i].path \in Paths
    PROVE  LET t == Inventory(E)
           IN  /\ IsSeq(t)
               /\ \A k \in DOMAIN t : \E i \in 1..Len(E) : t[k] = E[i]
               /\ \A i \in 1..Len(E) : \E k \in DOMAIN t : t[k].path = E[i].path
<1> DEFINE t == Inventory(E)
           S == {E[i].path : i \in 1..Len(E)}
           order == sorted[S]
           all == {E[i] : i \in 1..Len(E)}
<1>1. DOMAIN E = 1..Len(E) /\ S \in SUBSET (Paths \cup Directories)
  BY SeqIsSequence
<1>2. t = [k \in DOMAIN order |-> CHOOSE e \in all : e.path = order[k]]
  BY <1>1 DEF Inventory
<1> HIDE DEF order, t
<1>3. /\ IsSeq(order) /\ Len(order) \in Nat /\ DOMAIN order = 1..Len(order) /\ Elements(order) = S
  <2>1. IsSeq(order) /\ Elements(order) = S
    BY <1>1, SortedListing DEF order
  <2> QED  BY <2>1, SeqIsSequence DEF IsSeq
<1>4. DOMAIN t = 1..Len(order) /\ t = [k \in 1..Len(order) |-> t[k]]
  BY <1>2, <1>3
<1>5. IsSeq(t)
  <2> DEFINE N == Len(order)
             R == {t[k] : k \in 1..N}
  <2> HIDE DEF N
  <2>1. N \in Nat /\ t \in [1..N -> R]
    BY <1>3, <1>4 DEF N
  <2> HIDE DEF R
  <2>2. t \in Seq(R)
    BY <2>1
  <2> QED  BY <2>2, SequenceIsSeq
<1>6. ASSUME NEW k \in DOMAIN t PROVE t[k] \in all /\ t[k].path = order[k]
  <2>1. order[k] \in S
    BY <1>3, <1>4 DEF Elements
  <2>2. \E e \in all : e.path = order[k]
    BY <2>1
  <2>3. t[k] = CHOOSE e \in all : e.path = order[k]
    BY <1>2, <1>3, <1>4
  <2> HIDE DEF all
  <2> QED  BY <2>2, <2>3
<1>7. ASSUME NEW i \in 1..Len(E) PROVE \E k \in DOMAIN t : t[k].path = E[i].path
  <2>1. E[i].path \in Elements(order)
    BY <1>3
  <2>2. PICK k \in 1..Len(order) : order[k] = E[i].path
    BY <2>1 DEF Elements
  <2> QED  BY <1>4, <1>6, <2>2
<1> QED  BY <1>5, <1>6, <1>7 DEF t

LEMMA WalkEnds ==
    ASSUME NEW T, NEW w, NEW l, Walking(T, w, l), w.todo = <<>>
    PROVE  Walked(T, Inventory(w.entries), l)
<1> DEFINE E == w.entries
           t == Inventory(E)
<1>1. /\ IsSeq(E) /\ \A i \in 1..Len(E) : Visited(T, E[i], l)
      /\ \A d \in Directories : ListedAt(T, w, l, d)
  BY DEF Walking
<1>2. \A i \in 1..Len(E) : E[i].path \in Paths
  BY <1>1 DEF Visited
<1> HIDE DEF t
<1>3. /\ IsSeq(t)
      /\ \A k \in DOMAIN t : \E i \in 1..Len(E) : t[k] = E[i]
      /\ \A i \in 1..Len(E) : \E k \in DOMAIN t : t[k].path = E[i].path
  BY <1>1, <1>2, InventoryFacts DEF t
<1>4. \A k \in DOMAIN t : Visited(T, t[k], l)
  BY <1>1, <1>3
<1>5. ASSUME NEW d \in Directories PROVE \E j \in l..Len(T) : NamesIn(t, d) = InDirectory(T[j], d)
  <2>1. Elements(w.todo) = {}
    BY EmptyIsSeq DEF Elements
  <2>2. SeenIn(w, d) = {q \in Paths : Within[q] = d /\ \E i \in 1..Len(E) : E[i].path = q}
    BY <2>1 DEF SeenIn, Knows, Has
  <2>3. NamesIn(t, d) = SeenIn(w, d)
    <3>1. ASSUME NEW q \in NamesIn(t, d) PROVE q \in SeenIn(w, d)
      BY <1>2, <1>3, <2>2 DEF NamesIn
    <3>2. ASSUME NEW q \in SeenIn(w, d) PROVE q \in NamesIn(t, d)
      BY <1>3, <2>2 DEF NamesIn
    <3> QED  BY <3>1, <3>2
  <2> QED  BY <1>1, <2>1, <2>3 DEF ListedAt
<1> QED  BY <1>3, <1>4, <1>5 DEF Walked, t

\* A walk that finds what the one before it found saw files of one moment.
LEMMA WalkSawOneMoment ==
    ASSUME NEW T, History(T), NEW t, NEW l \in 1..Len(T), Walked(T, t, l),
           \A k \in DOMAIN t : EntryBefore(t[k], l)
    PROVE  WasThere(T, t, l, Len(T))
<1>1. ASSUME NEW k \in DOMAIN t
      PROVE  T[l][t[k].path].kind # "absent" /\ t[k] = EntryOf(T[l], t[k].path)
  <2>1. Visited(T, t[k], l) /\ EntryBefore(t[k], l)
    BY DEF Walked
  <2>2. l \in 1..l
    BY DEF History, IsSeq
  <2>3. /\ T[l][t[k].path].kind # "absent"
        /\ t[k] = [path |-> t[k].path, stat |-> statOf(T[l][t[k].path]), digest |-> contentOf(T[l][t[k].path])]
    BY <2>1, <2>2, OldContentStayed
  <2> QED  BY <2>3 DEF EntryOf
<1> QED  BY <1>1 DEF Walked, WasThere

\* ... and what was read of a listed file between two such walks belongs to it.
LEMMA ReadBetween ==
    ASSUME NEW T, History(T), NEW t, NEW l \in 1..Len(T), Walked(T, t, l),
           NEW m \in 1..l, \A k \in DOMAIN t : EntryBefore(t[k], m),
           NEW r \in m..l, NEW path, Lists(t, path)
    PROVE  T[m][path] = T[r][path]
<1>1. PICK k \in DOMAIN t : t[k].path = path
  BY DEF Lists
<1>3. Visited(T, t[k], l) /\ EntryBefore(t[k], m)
  BY <1>1 DEF Walked
<1> QED  BY <1>1, <1>3, OldContentStayed

LEMMA SourceGrows ==
    ASSUME NEW T, History(T), NEW tree, NEW s, NEW taken, NEW w, NEW from \in Nat \ {0}, NEW read, NEW derived,
           SourceAt(T, s, taken, w, from, read, derived)
    PROVE  SourceAt(Append(T, tree), s, taken, w, from, read, derived)
<1> DEFINE U == Append(T, tree)
<1>1. IsSeq(T) /\ Len(U) = Len(T) + 1 /\ Len(T) \in Nat /\ \A i \in 1..Len(T) : U[i] = T[i]
  BY AppendIsSeq DEF History
<1>2. SUFFICES ASSUME s \in SourceSteps \/ (s = "build" /\ derived)
               PROVE  \E m, r, l \in from..Len(U) : SnapsAt(U, s, taken, w, read, m, r, l)
  BY DEF SourceAt
<1>3. PICK m, r, l \in from..Len(T) : SnapsAt(T, s, taken, w, read, m, r, l)
  BY <1>2 DEF SourceAt
<1>4. Walking(T, w, l) => Walking(U, w, l)
  <2>1. l \in 1..Len(T)
    BY <1>1
  <2> QED  BY <1>1, <2>1, WalkingGrows
<1> HIDE DEF U
<1>5. /\ m \in from..Len(U) /\ r \in from..Len(U) /\ l \in from..Len(U)
      /\ U[m] = T[m] /\ U[r] = T[r]
  BY <1>1
<1>7. WasThere(T, taken[1].tree, m, Len(T)) => WasThere(U, taken[1].tree, m, Len(U))
  <2>1. m \in Nat \ {0} /\ \A j \in m..Len(T) : j \in m..Len(U) /\ U[j] = T[j]
    BY <1>1
  <2> QED  BY <1>5, <2>1 DEF WasThere
<1>6. SnapsAt(U, s, taken, w, read, m, r, l)
  BY <1>3, <1>4, <1>5, <1>7 DEF SnapsAt
<1> QED  BY <1>5, <1>6

LEMMA NoSnaps ==
    ASSUME NEW T, NEW w, NEW m \in Nat
    PROVE  SnapsAt(T, "list", <<>>, w, {}, m, m, m)
<1>1. IsSeq(<<>>) /\ Len(<<>>) = 0
  BY EmptyIsSeq
<1> QED  BY <1>1 DEF SnapsAt

LEMMA SnapsList ==
    ASSUME NEW T, History(T), NEW taken, NEW w, NEW from \in 1..Len(T), NEW read, NEW derived,
           SourceAt(T, "list", taken, w, from, read, derived), NEW v \in fetchList(Last(T))
    PROVE  SourceAt(T, "walk", taken, v, from, read, derived)
<1> DEFINE n == Len(T)
<1>1. n \in Nat /\ n >= 1 /\ Last(T) = T[n] /\ n \in from..n
  BY DEF History, IsSeq, Last
<1>2. PICK m, r, l \in from..Len(T) : SnapsAt(T, "list", taken, w, read, m, r, l)
  BY DEF SourceAt, SourceSteps
<1>3. Walking(T, v, n)
  BY <1>1, WalkBegins
<1>4. m <= r /\ r <= l /\ l <= n /\ r <= n /\ l \in Nat
  BY <1>1, <1>2 DEF SnapsAt
<1>5. Len(taken) = 1 => \A k \in DOMAIN taken[1].tree : EntryBefore(taken[1].tree[k], n)
  <2>1. Len(taken) = 1 => \A k \in DOMAIN taken[1].tree : EntryBefore(taken[1].tree[k], l)
    BY <1>2 DEF SnapsAt
  <2> QED  BY <1>1, <1>4, <2>1, EntryStaysBefore
<1>6. SnapsAt(T, "walk", taken, v, read, m, r, n)
  BY <1>2, <1>3, <1>4, <1>5 DEF SnapsAt
<1> QED  BY <1>1, <1>6 DEF SourceAt

LEMMA SnapsVisit ==
    ASSUME NEW T, History(T), NEW taken, NEW w, NEW from \in 1..Len(T), NEW read, NEW derived,
           SourceAt(T, "walk", taken, w, from, read, derived), w.todo # <<>>,
           NEW v \in Fetch(w, Last(T)), v.ok
    PROVE  SourceAt(T, "walk", taken, v, from, read, derived)
<1>1. PICK m, r, l \in from..Len(T) : SnapsAt(T, "walk", taken, w, read, m, r, l)
  BY DEF SourceAt, SourceSteps
<1>2. l \in 1..Len(T) /\ Walking(T, w, l)
  BY <1>1 DEF SnapsAt, History, IsSeq
<1>3. Walking(T, v, l)
  BY <1>2, WalkVisits
<1>4. SnapsAt(T, "walk", taken, v, read, m, r, l)
  BY <1>1, <1>3 DEF SnapsAt
<1> QED  BY <1>4 DEF SourceAt

Longer(all, taken, x) == all = Append(taken, x)

LEMMA Two == \A i : i = 2 => i <= 2 /\ 2 \in 1..i /\ i # 1 /\ i # 3 /\ i >= 2
OBVIOUS

LEMMA Counting ==
    ASSUME NEW a, NEW t \in Nat, a = t + 1, t <= 2
    PROVE  /\ a \in 1..3 /\ t + 1 \in 1..a /\ (t = 0 \/ (t # 0 /\ a # 1 /\ 1 \in 1..t))
           /\ a = 1 => t = 0 /\ t < 2
           /\ a = 2 => t = 1 /\ t < 2 /\ t # 0
           /\ a = 3 => t = 2 /\ t # 0
OBVIOUS

\* Where the end of a walk may lead, and what is known there.
AfterWalk(T, all, snapshot, from, read) ==
    /\ Len(all) \in 1..3 /\ all[Len(all)] = snapshot
    /\ Len(all) = 2 => all[2] = snapshot
    /\ Len(all) = 1 => \E m, r, l \in from..Len(T) : SnapsAt(T, "list", all, NoWalk, read, m, r, l)
    /\ Len(all) = 2 =>
         \E m, r, l \in from..Len(T) :
           /\ SnapsAt(T, "lock", all, NoWalk, read, m, r, l)
           /\ Lists(snapshot.tree, ManifestPath) => SnapsAt(T, "plan", all, NoWalk, read, m, r, l)
    /\ Len(all) = 3 =>
         \E m, r, l \in from..Len(T) :
           SnapsAt(T, "runner", all, NoWalk, read, m, r, l) /\ SnapsAt(T, "build", all, NoWalk, read, m, r, l)

LEMMA SnapsEnd ==
    ASSUME NEW T, History(T), NEW taken, NEW w, NEW from \in 1..Len(T), NEW read, NEW derived,
           SourceAt(T, "walk", taken, w, from, read, derived), w.todo = <<>>,
           NEW snapshot, snapshot.tree = Inventory(w.entries),
           NEW all, Longer(all, taken, snapshot), Len(all) # 1 => all[1].tree = snapshot.tree
    PROVE  AfterWalk(T, all, snapshot, from, read)
<1> SUFFICES /\ Len(all) \in 1..3 /\ Len(taken) + 1 = Len(all) /\ all[Len(all)] = snapshot
             /\ Len(all) = 2 => all[2] = snapshot
             /\ Len(all) = 1 => \E m, r, l \in from..Len(T) : SnapsAt(T, "list", all, NoWalk, read, m, r, l)
             /\ Len(all) = 2 =>
                  \E m, r, l \in from..Len(T) :
                    /\ SnapsAt(T, "lock", all, NoWalk, read, m, r, l)
                    /\ Lists(snapshot.tree, ManifestPath) => SnapsAt(T, "plan", all, NoWalk, read, m, r, l)
             /\ Len(all) = 3 =>
                  \E m, r, l \in from..Len(T) :
                    SnapsAt(T, "runner", all, NoWalk, read, m, r, l) /\ SnapsAt(T, "build", all, NoWalk, read, m, r, l)
  BY DEF AfterWalk
<1> DEFINE n == Len(T)
<1>1. n \in Nat /\ n >= 1 /\ n \in from..n
  BY DEF History, IsSeq
<1>2. PICK m, r, l \in from..Len(T) : SnapsAt(T, "walk", taken, w, read, m, r, l)
  BY DEF SourceAt, SourceSteps
<1>3. l \in 1..n /\ Walking(T, w, l) /\ IsSeq(taken) /\ Len(taken) <= 2 /\ m <= r /\ r <= l
  BY <1>1, <1>2 DEF SnapsAt
<1>4. /\ IsSeq(all) /\ Len(all) = Len(taken) + 1 /\ Len(taken) \in Nat
      /\ \A i \in 1..Len(taken) : all[i] = taken[i]
      /\ all[Len(taken) + 1] = snapshot
  BY <1>3, AppendIsSeq DEF Longer
<1>5. Len(taken) < 2 => read = {}
  BY <1>2, <1>4 DEF SnapsAt
<1>6. /\ Len(all) \in 1..3 /\ (Len(taken) = 0 \/ (Len(all) # 1 /\ all[1] = taken[1]))
      /\ Len(all) = 1 => Len(taken) = 0 /\ read = {}
      /\ Len(all) = 2 => Len(taken) = 1 /\ read = {} /\ all[1] = taken[1] /\ Len(all) # 1
      /\ Len(all) = 3 => Len(taken) = 2 /\ all[1] = taken[1] /\ Len(all) # 1
  <2>1. /\ Len(all) \in 1..3 /\ (Len(taken) = 0 \/ (Len(taken) # 0 /\ Len(all) # 1 /\ 1 \in 1..Len(taken)))
        /\ Len(all) = 1 => Len(taken) = 0 /\ Len(taken) < 2
        /\ Len(all) = 2 => Len(taken) = 1 /\ Len(taken) < 2 /\ Len(taken) # 0
        /\ Len(all) = 3 => Len(taken) = 2 /\ Len(taken) # 0
    BY <1>3, <1>4, Counting
  <2> QED  BY <1>4, <1>5, <2>1
<1> DEFINE found == snapshot.tree
<1>15. Walked(T, found, l)
  BY <1>3, WalkEnds
<1> HIDE DEF found
<1>16. snapshot.tree = found
  BY DEF found
<1>7. IsSeq(found)
  BY <1>15 DEF Walked
<1>8. ASSUME NEW i \in 1..Len(all) PROVE IsSeq(all[i].tree) /\ all[i].tree = all[1].tree
  <2>1. CASE i = Len(taken) + 1
    <3>1. CASE Len(taken) = 0
      BY <1>4, <1>7, <1>16, <2>1, <3>1
    <3>2. CASE Len(taken) # 0
      <4>1. Len(all) # 1
        BY <1>4, <3>2
      <4> QED  BY <1>4, <1>7, <1>16, <2>1, <4>1
    <3> QED  BY <3>1, <3>2
  <2>2. CASE i \in 1..Len(taken)
    <3>1. IsSeq(taken[i].tree) /\ taken[i].tree = taken[1].tree
      BY <1>2, <2>2 DEF SnapsAt
    <3>2. all[i] = taken[i] /\ all[1] = taken[1]
      BY <1>4, <1>6, <2>2
    <3> QED  BY <3>1, <3>2
  <2> QED  BY <1>4, <2>1, <2>2
<1>9. ASSUME NEW k \in DOMAIN found PROVE EntryBefore(found[k], n)
  <2>1. Visited(T, found[k], l)
    BY <1>15 DEF Walked
  <2> QED  BY <1>3, <2>1, VisitedBefore
<1>11. ASSUME Len(all) = 1
       PROVE  \E mm, rr, ll \in from..Len(T) : SnapsAt(T, "list", all, NoWalk, read, mm, rr, ll)
  <2>1. Len(taken) = 0 /\ read = {}
    BY <1>6, <1>11
  <2>3. all[0 + 1] = snapshot
    BY <1>4, <2>1
  <2>4. all[1] = snapshot
    BY <2>3
  <2>2. SnapsAt(T, "list", all, NoWalk, read, n, n, n)
    BY <1>1, <1>4, <1>8, <1>9, <1>11, <1>16, <2>1, <2>4 DEF SnapsAt
  <2> QED  BY <1>1, <2>2
<1>12. ASSUME Len(all) = 2
       PROVE  \E mm, rr, ll \in from..Len(T) :
                /\ SnapsAt(T, "lock", all, NoWalk, read, mm, rr, ll)
                /\ Lists(snapshot.tree, ManifestPath) => SnapsAt(T, "plan", all, NoWalk, read, mm, rr, ll)
  <2>1. Len(taken) = 1 /\ all[1] = taken[1] /\ read = {} /\ all[1].tree = found
    BY <1>6, <1>12, <1>16
  <2>2. \A k \in DOMAIN found : EntryBefore(found[k], l)
    BY <1>2, <2>1 DEF SnapsAt
  <2>3. WasThere(T, found, l, Len(T))
    BY <1>3, <1>15, <2>2, WalkSawOneMoment
  <2>4. l <= l
    BY <1>3
  <2>5. SnapsAt(T, "lock", all, NoWalk, read, l, l, l)
    BY <1>4, <1>8, <1>12, <2>1, <2>2, <2>3, <2>4 DEF SnapsAt
  <2>6. Lists(snapshot.tree, ManifestPath) => SnapsAt(T, "plan", all, NoWalk, read, l, l, l)
    BY <2>1, <2>5, <1>12, <1>16 DEF SnapsAt
  <2> QED  BY <2>5, <2>6
<1>13. ASSUME Len(all) = 3
       PROVE  \E mm, rr, ll \in from..Len(T) :
                SnapsAt(T, "runner", all, NoWalk, read, mm, rr, ll) /\ SnapsAt(T, "build", all, NoWalk, read, mm, rr, ll)
  <2>1. Len(taken) = 2 /\ all[1] = taken[1] /\ all[1].tree = found
    BY <1>6, <1>13, <1>16
  <2>2. WasThere(T, taken[1].tree, m, Len(T)) /\ \A k \in DOMAIN found : EntryBefore(found[k], m)
    BY <1>2, <2>1 DEF SnapsAt
  <2>3. read # {} => contentOf(T[m][ManifestPath]) = contentOf(T[r][ManifestPath])
    <3>1. m \in 1..l /\ r \in m..l
      BY <1>1, <1>3
    <3>2. read # {} => Lists(found, ManifestPath)
      BY <1>2, <2>1 DEF SnapsAt
    <3>3. read # {} => T[m][ManifestPath] = T[r][ManifestPath]
      BY <1>3, <1>15, <2>2, <3>1, <3>2, ReadBetween
    <3> QED  BY <3>3
  <2>4. read # {} => /\ Lists(all[1].tree, ManifestPath) /\ T[r][ManifestPath].kind = "file"
                     /\ read = {PlanOf(contentOf(T[r][ManifestPath]), all[1])}
    BY <1>2, <2>1 DEF SnapsAt
  <2>5. SnapsAt(T, "runner", all, NoWalk, read, m, r, l) /\ SnapsAt(T, "build", all, NoWalk, read, m, r, l)
    BY <1>3, <1>4, <1>8, <1>13, <2>1, <2>2, <2>3, <2>4 DEF SnapsAt
  <2> QED  BY <2>5
<1>14. all[Len(all)] = snapshot /\ (Len(all) = 2 => all[2] = snapshot)
  BY <1>4
<1> QED  BY <1>4, <1>6, <1>11, <1>12, <1>13, <1>14

LEMMA SnapsRead ==
    ASSUME NEW T, History(T), NEW taken, NEW w, NEW from \in 1..Len(T), NEW read, NEW derived,
           SourceAt(T, "plan", taken, w, from, read, derived), Last(T)[ManifestPath].kind = "file"
    PROVE  SourceAt(T, "list", taken, w, from, {PlanOf(contentOf(Last(T)[ManifestPath]), taken[2])}, derived)
<1> DEFINE n == Len(T)
<1>1. n \in Nat /\ n >= 1 /\ Last(T) = T[n] /\ n \in from..n
  BY DEF History, IsSeq, Last
<1>2. PICK m, r, l \in from..Len(T) : SnapsAt(T, "plan", taken, w, read, m, r, l)
  BY DEF SourceAt, SourceSteps
<1>3. Len(taken) = 2 /\ taken[2].tree = taken[1].tree /\ m <= n /\ n <= n
  <2>1. Len(taken) = 2
    BY <1>2 DEF SnapsAt
  <2>2. 2 \in 1..Len(taken)
    BY <2>1, Two
  <2> QED  BY <1>1, <1>2, <2>1, <2>2 DEF SnapsAt
<1> DEFINE new == {PlanOf(contentOf(Last(T)[ManifestPath]), taken[2])}
<1>4. new = {PlanOf(contentOf(T[n][ManifestPath]), taken[1])}
  BY <1>1, <1>3 DEF PlanOf
<1> HIDE DEF new
<1>5. SnapsAt(T, "list", taken, w, new, m, n, n)
  BY <1>1, <1>2, <1>3, <1>4, Two DEF SnapsAt
<1>6. SourceAt(T, "list", taken, w, from, new, derived)
  BY <1>1, <1>5 DEF SourceAt
<1> QED  BY <1>6 DEF new

LEMMA SnapsInputs ==
    ASSUME NEW T, NEW taken, NEW w, NEW from, NEW read, NEW derived, NEW s \in {"lock", "package"},
           SourceAt(T, s, taken, w, from, read, derived)
    PROVE  /\ SourceAt(T, "package", taken, w, from, read, derived)
           /\ SourceAt(T, "list", taken, w, from, read, derived)
<1>1. PICK m, r, l \in from..Len(T) : SnapsAt(T, s, taken, w, read, m, r, l)
  BY DEF SourceAt, SourceSteps
<1>2. Len(taken) = 2
  BY <1>1 DEF SnapsAt
<1>3. Len(taken) <= 2
  BY <1>2, Two
<1>4. SnapsAt(T, "package", taken, w, read, m, r, l) /\ SnapsAt(T, "list", taken, w, read, m, r, l)
  BY <1>1, <1>2, <1>3 DEF SnapsAt
<1> QED  BY <1>4 DEF SourceAt

\* What the snapshots are good for.
LEMMA SnapsMoment ==
    ASSUME NEW T, NEW s, NEW taken, NEW w, NEW read, NEW m, NEW r, NEW l, NEW k \in 2..3, Len(taken) = k,
           SnapsAt(T, s, taken, w, read, m, r, l)
    PROVE  /\ WasThere(T, taken[k].tree, m, Len(T))
           /\ (k = 3 /\ read # {}) => read = {PlanOf(contentOf(T[m][ManifestPath]), taken[k])}
<1>1. k \in 1..Len(taken) /\ Len(taken) >= 2
  OBVIOUS
<1>2. taken[k].tree = taken[1].tree /\ WasThere(T, taken[1].tree, m, Len(T))
  BY <1>1 DEF SnapsAt
<1>3. \A content : PlanOf(content, taken[k]) = PlanOf(content, taken[1])
  BY <1>2 DEF PlanOf
<1> QED  BY <1>1, <1>2, <1>3 DEF SnapsAt

-----------------------------------------------------------------------------
(* What an answer says. *)

LEMMA FreshnessSays ==
    ASSUME NEW h, NEW current, NEW answer, answer = EvaluateFreshness(h, current)
    PROVE  /\ (answer.reason = "plan-unavailable" /\ current.reason = "none") => current.source = {h.source}
           /\ answer.evaluation = "current" =>
                /\ current.source = {h.source} /\ current.plan # {} /\ current.runner # {}
                /\ \A x \in current.plan : x.policy = h.plan.policy /\ x.digest = h.plan.digest
           /\ answer.evaluation # "fresh"
BY DEF EvaluateFreshness, Unknown, Stale, SourceReasons

LEMMA CurrentnessSays ==
    ASSUME NEW h, NEW d, NEW reason, NEW rules, NEW answer, answer = EvaluateSBOMCurrentness(h, {d}, reason, rules)
    PROVE  /\ answer.evaluation # "current"
           /\ answer.evaluation = "fresh" =>
                d.provenance.ruleset = h.provenance.ruleset /\ d.provenance.inputs = h.provenance.inputs
BY DEF EvaluateSBOMCurrentness, Unknown, Stale

\* What a derivation uses of a snapshot is its tree.
LEMMA DerivationOfTree ==
    ASSUME NEW snapshot
    PROVE  /\ Derivation([tree |-> snapshot.tree]).provenance = Derivation(snapshot).provenance
           /\ Derivation(snapshot).provenance =
                [inputs |-> Derivation(snapshot).provenance.inputs, ruleset |-> Derivation(snapshot).provenance.ruleset]
<1>1. [tree |-> snapshot.tree].tree = snapshot.tree
  OBVIOUS
<1>2. \A path : entriesOf([tree |-> snapshot.tree], path) = entriesOf(snapshot, path)
  BY <1>1 DEF entriesOf
<1> QED  BY <1>1, <1>2 DEF Derivation

LEMMA AnswerStands ==
    ASSUME NEW p, NEW snapshot, NEW read, NEW evaluation, NEW m \in Nat, Len(trees) \in m..Len(trees), NEW x \in About(snapshot, read),
           Command(p).op \notin {"verify-release-index", "sign-release-index"},
           WasThere(trees, snapshot.tree, m, Len(trees)),
           read # {} => read = {PlanOf(contentOf(trees[m][ManifestPath]), snapshot)},
           evaluation = "current" =>
             /\ Claims(p).source.tree = snapshot.tree
             /\ Claims(p).plan = PlanOf(contentOf(trees[m][ManifestPath]), snapshot),
           evaluation = "fresh" => DerivedClaims(p).provenance = Derivation(snapshot).provenance
    PROVE  StandsAt(p, x, evaluation, m, Len(trees))
<1> DEFINE content == contentOf(trees[m][ManifestPath])
<1>1. x = [tree |-> snapshot.tree, manifest |-> {r.digest[1] : r \in read}]
  BY DEF About
<1>2. x.tree = snapshot.tree /\ x.manifest = {r.digest[1] : r \in read}
  BY <1>1
<1>3. x.manifest \subseteq {content}
  <2> SUFFICES ASSUME NEW r \in read PROVE r.digest[1] = content
    BY <1>2
  <2>1. r = PlanOf(content, snapshot)
    OBVIOUS
  <2> HIDE DEF content
  <2>2. r.digest = <<content, snapshot.tree>>
    BY <2>1 DEF PlanOf
  <2> QED  BY <2>2
<1>4. PlanOf(content, x) = PlanOf(content, snapshot)
  BY <1>2 DEF PlanOf
<1>5. Derivation([tree |-> x.tree]).provenance = Derivation(snapshot).provenance
  BY <1>2, DerivationOfTree
<1> QED  BY <1>2, <1>3, <1>4, <1>5 DEF StandsAt

-----------------------------------------------------------------------------
(* What an outcome is about. *)

\* The outcome of p rests on nothing, and nobody else's changes.
Silent(p) ==
    /\ \A q \in Procs \ {p} : result'[q] = result[q]
    /\ result'[p].about = {}
    /\ pc'[p] # "done" => result'[p].evaluation = "none"

LEMMA FinishAbout ==
    ASSUME Types, NEW p \in Procs, NEW o, DOMAIN o = Fields, Finish(p, o)
    PROVE  /\ pc'[p] = "done" /\ \A q \in Procs \ {p} : result'[q] = result[q] /\ pc'[q] = pc[q]
           /\ result'[p].about = o.about /\ result'[p].evaluation = o.evaluation
           /\ result'[p].until = Len(trees)
<1> DEFINE r == [o EXCEPT !.until = Len(trees)]
<1>1. r.about = o.about /\ r.evaluation = o.evaluation /\ r.until = Len(trees)
  BY DEF Fields
<1> HIDE DEF r
<1>2. result' = [result EXCEPT ![p] = r] /\ pc' = [pc EXCEPT ![p] = "done"]
  BY DEF Finish, r
<1> QED  BY <1>1, <1>2 DEF Types

LEMMA ConcludeAbout ==
    ASSUME Types, NEW p \in Procs, NEW answer, NEW about, Conclude(p, answer, about)
    PROVE  /\ pc'[p] = "done" /\ \A q \in Procs \ {p} : result'[q] = result[q] /\ pc'[q] = pc[q]
           /\ result'[p].about \subseteq about /\ result'[p].evaluation = answer.evaluation
           /\ result'[p].until = Len(trees)
<1> DEFINE status == IF answer.evaluation \in {"current", "fresh"} THEN "ok" ELSE "error"
           rests == IF answer.evaluation = "unknown" THEN {} ELSE about
           o == [result[p] EXCEPT !.status = status, !.reason = answer.reason,
                    !.evaluation = answer.evaluation, !.about = rests]
<1>1. Finish(p, o)
  BY DEF Conclude
<1>2. rests \subseteq about
  OBVIOUS
<1> HIDE DEF status, rests
<1>3. DOMAIN o = Fields /\ o.about = rests /\ o.evaluation = answer.evaluation
  BY DEF Types, Fields
<1> HIDE DEF o
<1> QED  BY <1>1, <1>2, <1>3, FinishAbout

LEMMA SilentWays ==
    ASSUME Types, AboutInv, NEW p \in Procs, pc[p] # "done"
    PROVE  /\ UNCHANGED <<pc, result>> => Silent(p)
           /\ \A s : Goto(p, s) => Silent(p)
           /\ \A reason : Fail(p, reason) => Silent(p)
           /\ \A reason : Reject(p, reason) => Silent(p)
           /\ Finish(p, Accepted(p)) => Silent(p)
           /\ Accept(p) => Silent(p)
           /\ Kill(p) => Silent(p)
           /\ \A answer : Conclude(p, answer, {}) => Silent(p)
           /\ \A reason : Unusable(p, reason) => Silent(p)
<1>1. result[p].about = {} /\ result[p].evaluation = "none" /\ DOMAIN result[p] = Fields
  BY DEF AboutInv, Types
<1>2. UNCHANGED <<pc, result>> => Silent(p)
  BY <1>1 DEF Silent
<1>3. \A s : Goto(p, s) => Silent(p)
  BY <1>1 DEF Silent, Goto
<1>4. ASSUME NEW o, DOMAIN o = Fields, o.about = {}, Finish(p, o) PROVE Silent(p)
  BY <1>4, FinishAbout DEF Silent
<1>5. ASSUME NEW reason, Fail(p, reason) PROVE Silent(p)
  <2> DEFINE o == [result[p] EXCEPT !.status = "error", !.reason = reason]
  <2>1. DOMAIN o = Fields /\ o.about = {}
    BY <1>1 DEF Fields
  <2>2. Finish(p, o)
    BY <1>5 DEF Fail
  <2> HIDE DEF o
  <2> QED  BY <1>4, <2>1, <2>2
<1>6. ASSUME NEW reason, Reject(p, reason) PROVE Silent(p)
  <2> DEFINE o == [result[p] EXCEPT !.status = "error", !.trust = "rejected", !.reason = reason]
  <2>1. DOMAIN o = Fields /\ o.about = {}
    BY <1>1 DEF Fields
  <2>2. Finish(p, o)
    BY <1>6 DEF Reject
  <2> HIDE DEF o
  <2> QED  BY <1>4, <2>1, <2>2
<1>7. DOMAIN Accepted(p) = Fields /\ Accepted(p).about = {} /\ Accepted(p).evaluation = "none"
  BY <1>1 DEF Accepted, Fields
<1>8. Finish(p, Accepted(p)) => Silent(p)
  BY <1>4, <1>7
<1>9. Accept(p) => Silent(p)
  <2>1. ASSUME result' = [result EXCEPT ![p] = Accepted(p)] PROVE Silent(p)
    BY <1>7, <2>1 DEF Silent, Types
  <2> QED  BY <1>8, <2>1 DEF Accept
<1>10. Kill(p) => Silent(p)
  <2> DEFINE o == [Running EXCEPT !.status = "killed"]
  <2>1. DOMAIN o = Fields /\ o.about = {}
    BY DEF Running, Fields
  <2>2. Kill(p) => Finish(p, o)
    BY DEF Kill
  <2> HIDE DEF o
  <2> QED  BY <1>4, <2>1, <2>2
<1>11. ASSUME NEW answer, Conclude(p, answer, {}) PROVE Silent(p)
  BY <1>11, ConcludeAbout DEF Silent
<1>12. ASSUME NEW reason, Unusable(p, reason) PROVE Silent(p)
  <2>1. Purpose(p) \in {"attest", "freshness", "sbom"}
    BY DEF Purpose
  <2> QED  BY <1>5, <1>11, <1>12, <2>1 DEF Unusable, sbomCurrentnessUnknown, freshnessUnknown
<1> QED  BY <1>2, <1>3, <1>5, <1>6, <1>8, <1>9, <1>10, <1>11, <1>12

LEMMA StandingStays ==
    ASSUME NEW q, Command(q)' = Command(q), NEW i, NEW u, u \in i..Len(trees) => u \in i..Len(trees'),
           u \in i..Len(trees) => trees'[i] = trees[i] /\ \A j \in i..u : trees'[j] = trees[j],
           NEW about, NEW evaluation,
           StandsAt(q, about, evaluation, i, u)
    PROVE  StandsAt(q, about, evaluation, i, u)'
<1>1. Claims(q)' = Claims(q)
  BY DEF Claims
<1>2. DerivedClaims(q)' = DerivedClaims(q)
  BY <1>1 DEF DerivedClaims
<1>3. u \in i..Len(trees) /\ u \in i..Len(trees')
  BY DEF StandsAt
<1>4. WasThere(trees, about.tree, i, u) => WasThere(trees', about.tree, i, u)
  BY <1>3 DEF WasThere
<1> QED  BY <1>1, <1>2, <1>3, <1>4 DEF StandsAt

LEMMA ReachingKeepsAbout ==
    ASSUME AboutInv, NEW p \in Procs, NEW steps, Reaches(p, steps),
           DOMAIN plan' = Procs, \A q \in Procs \ {p} : plan'[q] = plan[q] /\ result'[q] = result[q],
           pc'[p] \in BlankSteps \cup {"resolve"} => snaps'[p] = <<>> /\ plan'[p] = {},
           (pc'[p] \in Comparing /\ Command(p).op = "verify-attestation") => Command(p).current,
           SourceAt(trees, pc'[p], snaps'[p], walk'[p], since[p], plan'[p], Derived(Command(p))),
           pc'[p] # "done" => result'[p].about = {} /\ result'[p].evaluation = "none",
           \A about \in result'[p].about :
             \E i \in since[p]..result'[p].until : i <= Len(trees) /\ StandsAt(p, about, result'[p].evaluation, i, result'[p].until)
    PROVE  AboutInv'
<1>1. /\ script' = script /\ trees' = trees /\ since' = since /\ Procs' = Procs
      /\ \A q \in Procs : Command(q)' = Command(q)
  BY DEF Reaches, Procs, Command
<1>2. \A q \in Procs : q = p \/ /\ pc'[q] = pc[q] /\ snaps'[q] = snaps[q] /\ walk'[q] = walk[q]
                                /\ plan'[q] = plan[q] /\ result'[q] = result[q]
  BY DEF Reaches
<1>3. ASSUME NEW q \in Procs, NEW about, NEW evaluation, NEW i, NEW u, StandsAt(q, about, evaluation, i, u)
      PROVE  StandsAt(q, about, evaluation, i, u)'
  BY <1>1, <1>3, StandingStays
<1>4. ASSUME NEW q \in Procs
      PROVE  /\ pc'[q] \in BlankSteps \cup {"resolve"} => snaps'[q] = <<>> /\ plan'[q] = {}
             /\ (pc'[q] \in Comparing /\ Command(q)'.op = "verify-attestation") => Command(q)'.current
             /\ SourceOf(q)'
             /\ pc'[q] # "done" => result'[q].about = {} /\ result'[q].evaluation = "none"
             /\ \A about \in result'[q].about :
                  \E i \in since'[q]..result'[q].until :
                    i <= Len(trees') /\ StandsAt(q, about, result'[q].evaluation, i, result'[q].until)
  <2>1. CASE q = p
    BY <1>1, <2>1 DEF SourceOf
  <2>2. CASE q # p
    BY <1>1, <1>2, <2>2 DEF AboutInv, SourceOf
  <2> QED  BY <2>1, <2>2
<1> QED  BY <1>1, <1>3, <1>4 DEF AboutInv

LEMMA SilentKeepsAbout ==
    ASSUME AboutInv, NEW p \in Procs, NEW steps, Reaches(p, steps), Silent(p), plan' = plan,
           pc'[p] \notin SourceSteps, pc'[p] = "build" => ~Derived(Command(p)),
           pc'[p] \in BlankSteps \cup {"resolve"} => pc[p] \in BlankSteps \cup {"resolve"} /\ snaps' = snaps,
           (pc'[p] \in Comparing /\ Command(p).op = "verify-attestation") => Command(p).current
    PROVE  AboutInv'
<1>1. DOMAIN plan' = Procs /\ \A q \in Procs \ {p} : plan'[q] = plan[q] /\ result'[q] = result[q]
  BY DEF AboutInv, Silent
<1>2. pc'[p] \in BlankSteps \cup {"resolve"} => snaps'[p] = <<>> /\ plan'[p] = {}
  BY DEF AboutInv
<1>3. SourceAt(trees, pc'[p], snaps'[p], walk'[p], since[p], plan'[p], Derived(Command(p)))
  BY DEF SourceAt
<1>4. result'[p].about = {} /\ (pc'[p] # "done" => result'[p].evaluation = "none")
  BY DEF Silent
<1> QED  BY <1>1, <1>2, <1>3, <1>4, ReachingKeepsAbout

\* The steps that do not look at a source tree, and where they lead.
Unlooking(p) ==
    \/ VerifyAttestation(p) \/ ObservePolicyState(p) \/ VerifySigner(p) \/ Kill(p) \/ Attest(p) \/ Issue(p)
    \/ VerifyReleaseIndex(p) \/ ObserveAuthorityState(p) \/ ObserveReleasePolicy(p) \/ AuthorizeIndex(p)
    \/ SignReleaseIndex(p) \/ ObserveIndexState(p) \/ ScanList(p) \/ ScanFile(p) \/ ScanEnd(p)

LEMMA UnlookingFrame ==
    ASSUME TreeInv, NEW p \in Procs, Unlooking(p)
    PROVE  /\ script' = script /\ trees' = trees /\ since' = since /\ plan' = plan
           /\ pc[p] \notin {"idle", "done"}
           /\ DOMAIN snaps' = Procs /\ DOMAIN walk' = Procs
           /\ \A q \in Procs \ {p} : snaps'[q] = snaps[q] /\ walk'[q] = walk[q]
           /\ pc[p] \in BlankSteps => snaps' = snaps
<1>1. /\ script' = script /\ trees' = trees /\ since' = since /\ plan' = plan /\ pc[p] \notin {"idle", "done"}
  BY DEF Unlooking, VerifyAttestation, ObservePolicyState, VerifySigner, Kill, Attest, Issue, VerifyReleaseIndex,
         ObserveAuthorityState, ObserveReleasePolicy, AuthorizeIndex, SignReleaseIndex, ObserveIndexState,
         ScanList, ScanFile, ScanEnd
<1>2. \E x : walk' = [walk EXCEPT ![p] = x] \/ walk' = walk
  BY DEF Unlooking, VerifyAttestation, ObservePolicyState, VerifySigner, Kill, Attest, Issue, VerifyReleaseIndex,
         ObserveAuthorityState, ObserveReleasePolicy, AuthorizeIndex, SignReleaseIndex, ObserveIndexState,
         ScanList, ScanFile, ScanEnd
<1>3. snaps' = snaps \/ (pc[p] = "scanning" /\ \E x : snaps' = [snaps EXCEPT ![p] = x])
  BY DEF Unlooking, VerifyAttestation, ObservePolicyState, VerifySigner, Kill, Attest, Issue, VerifyReleaseIndex,
         ObserveAuthorityState, ObserveReleasePolicy, AuthorizeIndex, SignReleaseIndex, ObserveIndexState,
         ScanList, ScanFile, ScanEnd
<1>4. DOMAIN walk' = Procs /\ \A q \in Procs \ {p} : walk'[q] = walk[q]
  BY <1>2 DEF TreeInv
<1>5. DOMAIN snaps' = Procs /\ \A q \in Procs \ {p} : snaps'[q] = snaps[q]
  BY <1>3 DEF TreeInv
<1>6. pc[p] \in BlankSteps => snaps' = snaps
  BY <1>3 DEF BlankSteps
<1> QED  BY <1>1, <1>4, <1>5, <1>6

\* Where they lead without a look at a tree.
LEMMA UnlookingWay ==
    ASSUME Inv, AboutInv, NEW p \in Procs, Unlooking(p), pc[p] # "done"
    PROVE  /\ Silent(p)
           /\ \A q \in Procs \ {p} : pc'[q] = pc[q]
           /\ \/ pc'[p] \in {"done", "scan", "scanning", "names"}
              \/ pc[p] \in BlankSteps /\ pc'[p] \in BlankSteps
              \/ pc[p] \in BlankSteps /\ pc'[p] = "resolve"
                 /\ (Command(p).op = "verify-attestation" => Command(p).current)
              \/ pc'[p] = "build" /\ ~Derived(Command(p)) /\ Command(p).op = "attest"
<1> DEFINE Others == \A q \in Procs \ {p} : pc'[q] = pc[q]
           c == Command(p)
<1>1. /\ \A s : Goto(p, s) => pc'[p] = s /\ Others /\ Silent(p)
      /\ \A o : Fail(p, o) => pc'[p] = "done" /\ Others /\ Silent(p)
      /\ \A o : Reject(p, o) => pc'[p] = "done" /\ Others /\ Silent(p)
      /\ Finish(p, Accepted(p)) => pc'[p] = "done" /\ Others /\ Silent(p)
  BY Ways, SilentWays DEF Inv
<1>2. Accept(p) => Others /\ Silent(p) /\ (pc'[p] = "done" \/ (pc'[p] = "resolve" /\ c.current))
  <2>1. Accept(p) => Others /\ Silent(p)
    BY Ways, SilentWays DEF Inv
  <2>2. Accept(p) => pc'[p] = "done" \/ (pc'[p] = "resolve" /\ c.current)
    BY <1>1, Ways DEF Accept, Inv
  <2> QED  BY <2>1, <2>2
<1> DEFINE To(x) == \/ x \in {"done", "scan", "scanning", "names"}
                    \/ pc[p] \in BlankSteps /\ x \in BlankSteps
                    \/ pc[p] \in BlankSteps /\ x = "resolve" /\ (c.op = "verify-attestation" => c.current)
                    \/ x = "build" /\ ~Derived(c) /\ c.op = "attest"
<1> SUFFICES Silent(p) /\ Others /\ To(pc'[p])
  OBVIOUS
<1>3. \A x : x \in {"done", "scan", "scanning", "names"} => To(x)
  OBVIOUS
<1>4. pc[p] \in {"start", "policy-state", "signer", "authority-state", "authorize"} =>
        /\ \A x : x \in {"done", "start", "policy-state", "signer", "authority-state", "authorize"} => To(x)
        /\ (c.op = "verify-attestation" => c.current) => To("resolve")
  BY DEF BlankSteps
<1>5. (~Derived(c) /\ c.op = "attest") => To("build")
  OBVIOUS
<1> HIDE DEF Others, To, c
<1>6. \A d : DecideSigner(p, d) => Others /\ Silent(p) /\ (pc'[p] = "done" \/ (pc'[p] = "resolve" /\ c.current))
  BY <1>1, <1>2 DEF DecideSigner
<1>7. ReleasePolicy(p) => Others /\ Silent(p) /\ pc'[p] \in {"done", "policy-state", "authorize"}
  <2>1. (\E x : Reject(p, x)) \/ Goto(p, "policy-state") \/ Goto(p, "authorize") \/ ~ReleasePolicy(p)
    BY DEF ReleasePolicy
  <2> QED  BY <1>1, <2>1
<1>8. ASSUME NEW o, NEW A, ObserveRelease(p, o, A) PROVE A \/ \E x : Reject(p, x)
  BY <1>8 DEF ObserveRelease
<1>9. CASE VerifyAttestation(p)
  <2>1. pc[p] = "start" /\ (\/ \E x : Fail(p, x)
                            \/ \E d : DecideSigner(p, d)
                            \/ Goto(p, "policy-state") \/ Goto(p, "signer"))
    BY <1>9 DEF VerifyAttestation
  <2> QED  BY <1>1, <1>4, <1>6, <2>1
<1>10. CASE VerifySigner(p)
  <2>1. pc[p] = "signer" /\ \E d : DecideSigner(p, d)
    BY <1>10 DEF VerifySigner
  <2> QED  BY <1>4, <1>6, <2>1
<1>11. CASE ObservePolicyState(p)
  <2>1. pc[p] = "policy-state" /\ (Goto(p, "signer") \/ \E x : Reject(p, x))
    BY <1>11 DEF ObservePolicyState
  <2> QED  BY <1>1, <1>4, <2>1
<1>12. CASE VerifyReleaseIndex(p)
  <2>1. pc[p] = "start" /\ (\/ \E x : Fail(p, x)
                            \/ \E x : Reject(p, x)
                            \/ Goto(p, "authority-state") \/ ReleasePolicy(p))
    BY <1>12 DEF VerifyReleaseIndex
  <2> QED  BY <1>1, <1>4, <1>7, <2>1
<1>13. CASE ObserveAuthorityState(p)
  <2>1. pc[p] = "authority-state" /\ (ReleasePolicy(p) \/ \E x : Reject(p, x))
    BY <1>13, <1>8 DEF ObserveAuthorityState, ObserveRelease
  <2> QED  BY <1>1, <1>4, <1>7, <2>1
<1>14. CASE ObserveReleasePolicy(p)
  <2>1. pc[p] = "policy-state" /\ (Goto(p, "authorize") \/ \E x : Reject(p, x))
    BY <1>14 DEF ObserveReleasePolicy, ObserveRelease
  <2> QED  BY <1>1, <1>4, <2>1
<1>15. CASE ObserveIndexState(p)
  <2>1. Finish(p, Accepted(p)) \/ \E x : Reject(p, x)
    BY <1>15 DEF ObserveIndexState, ObserveRelease
  <2> QED  BY <1>1, <1>3, <2>1
<1>16. CASE AuthorizeIndex(p)
  <2>1. Goto(p, "scan") \/ \E x : Reject(p, x)
    BY <1>16 DEF AuthorizeIndex
  <2> QED  BY <1>1, <1>3, <2>1
<1>17. CASE SignReleaseIndex(p)
  BY <1>1, <1>3, <1>17 DEF SignReleaseIndex
<1>18. CASE Kill(p)
  <2>1. Silent(p)
    BY <1>18, SilentWays DEF Inv
  <2>2. pc'[p] = "done" /\ Others
    BY <1>18 DEF Kill, Finish, Inv, Types, Others
  <2> QED  BY <1>3, <2>1, <2>2
<1>19. CASE Attest(p)
  <2>1. pc[p] = "start" /\ c.op = "attest"
    BY <1>19 DEF Attest, c
  <2>2. (\E reason : Fail(p, reason)) \/ (c.evidence = "derived" /\ Goto(p, "resolve"))
        \/ (c.evidence # "derived" /\ Goto(p, "build"))
    BY <1>19 DEF Attest, c
  <2>3. c.evidence # "derived" => ~Derived(c)
    BY DEF Derived
  <2> QED  BY <1>1, <1>3, <1>4, <1>5, <2>1, <2>2, <2>3
<1>20. CASE Issue(p)
  <2> DEFINE o == [result[p] EXCEPT !.status = "ok", !.made = Issued(Command(p))]
  <2>1. DOMAIN o = Fields /\ o.about = result[p].about
    BY DEF Inv, Types, Fields
  <2>2. result[p].about = {}
    BY DEF AboutInv
  <2>3. Fail(p, "signing") \/ Finish(p, o)
    BY <1>20 DEF Issue
  <2> HIDE DEF o
  <2>4. Finish(p, o) => pc'[p] = "done" /\ Others /\ Silent(p)
    BY <2>1, <2>2, FinishAbout DEF Silent, Inv, Others
  <2> QED  BY <1>1, <1>3, <2>3, <2>4
<1>21. CASE ScanList(p)
  <2>1. Goto(p, "scanning") \/ \E x : Fail(p, x)
    BY <1>21 DEF ScanList
  <2> QED  BY <1>1, <1>3, <2>1
<1>22. CASE ScanEnd(p)
  <2>1. Goto(p, "scan") \/ Goto(p, "names") \/ \E x : Fail(p, x)
    BY <1>22 DEF ScanEnd
  <2> QED  BY <1>1, <1>3, <2>1
<1>23. CASE ScanFile(p)
  <2>1. pc[p] = "scanning" /\ (UNCHANGED <<pc, result>> \/ Fail(p, "artifacts"))
    BY <1>23 DEF ScanFile
  <2>2. UNCHANGED <<pc, result>> => Silent(p) /\ Others
    BY SilentWays DEF Inv, Others
  <2> QED  BY <1>1, <1>3, <2>1, <2>2
<1> QED  BY <1>9, <1>10, <1>11, <1>12, <1>13, <1>14, <1>15, <1>16, <1>17, <1>18, <1>19, <1>20, <1>21, <1>22, <1>23
         DEF Unlooking

LEMMA UnlookingKeepsAbout ==
    ASSUME Inv, TreeInv, AboutInv, NEW p \in Procs, Unlooking(p)
    PROVE  AboutInv'
<1>1. /\ script' = script /\ trees' = trees /\ since' = since /\ plan' = plan
      /\ pc[p] \notin {"idle", "done"}
      /\ DOMAIN snaps' = Procs /\ DOMAIN walk' = Procs
      /\ \A q \in Procs \ {p} : snaps'[q] = snaps[q] /\ walk'[q] = walk[q]
      /\ pc[p] \in BlankSteps => snaps' = snaps
  BY UnlookingFrame
<1>2. /\ Silent(p)
      /\ \A q \in Procs \ {p} : pc'[q] = pc[q]
      /\ \/ pc'[p] \in {"done", "scan", "scanning", "names"}
         \/ pc[p] \in BlankSteps /\ pc'[p] \in BlankSteps
         \/ pc[p] \in BlankSteps /\ pc'[p] = "resolve"
            /\ (Command(p).op = "verify-attestation" => Command(p).current)
         \/ pc'[p] = "build" /\ ~Derived(Command(p)) /\ Command(p).op = "attest"
  BY <1>1, UnlookingWay
<1>3. Reaches(p, {pc'[p]})
  BY <1>1, <1>2 DEF Reaches
<1>4. pc'[p] \notin SourceSteps
  BY <1>2 DEF SourceSteps, BlankSteps
<1>5. pc'[p] = "build" => ~Derived(Command(p))
  BY <1>2 DEF BlankSteps
<1>6. pc'[p] \in BlankSteps \cup {"resolve"} => pc[p] \in BlankSteps \cup {"resolve"} /\ snaps' = snaps
  BY <1>1, <1>2 DEF BlankSteps
<1>7. (pc'[p] \in Comparing /\ Command(p).op = "verify-attestation") => Command(p).current
  BY <1>2 DEF Comparing, BlankSteps
<1> QED  BY <1>1, <1>2, <1>3, <1>4, <1>5, <1>6, <1>7, SilentKeepsAbout

-----------------------------------------------------------------------------
(* Steps that look at a source tree. *)

\* What is compared has been decoded, and says it is of a tree with a manifest.
LEMMA ClaimsFacts ==
    ASSUME Inv, AboutInv, NEW p \in Procs, pc[p] \in Comparing, Command(p).op = "verify-attestation"
    PROVE  /\ Lists(Claims(p).source.tree, ManifestPath)
           /\ Claims(p).plan = [policy |-> Claims(p).plan.policy, digest |-> Claims(p).plan.digest]
           /\ Claims(p).derived # {} =>
                DerivedClaims(p).provenance = [inputs |-> DerivedClaims(p).provenance.inputs,
                                               ruleset |-> DerivedClaims(p).provenance.ruleset]
<1> DEFINE c == Command(p)
           b == c.bundle
           statement == Member(b, "attestation")
           provenance == Member(b, "provenance")
<1>1. script \in Scripts /\ p \in DOMAIN script.commands /\ c = script.commands[p] /\ c.current
  BY DEF Inv, Types, Procs, Command, AboutInv
<1>2. DecodedBundle(b) /\ ClaimsManifest(b)
  BY <1>1, ScriptsAssumption
<1>3. DocumentsOK(c)
  BY DEF Inv, Local, Outcome
<1>4. Verify(b)
  BY <1>3 DEF DocumentsOK, BundleOK
<1>5. parseCanonicalTarModel(b)
  BY <1>4 DEF Verify
<1>6. PICK paths \in Layouts : Members(b) = Range(paths)
  BY <1>5, CanonicalLayout
<1>7. "attestation" \in Members(b)
  BY <1>6, LayoutFacts
<1>8. PICK i \in DOMAIN b : b[i].path = "attestation" /\ statement = b[i].data
  BY <1>7, MemberOf
<1>9. statement.plan = [policy |-> statement.plan.policy, digest |-> statement.plan.digest]
  BY <1>2, <1>8 DEF DecodedBundle
<1>10. Lists(statement.source.tree, ManifestPath)
  BY <1>2, <1>8 DEF ClaimsManifest
<1>11. Claims(p).source = statement.source /\ Claims(p).plan = statement.plan
  BY DEF Claims, acceptedClaimsFromBundle
<1>12. ASSUME Claims(p).derived # {}
       PROVE  DerivedClaims(p).provenance = [inputs |-> DerivedClaims(p).provenance.inputs,
                                             ruleset |-> DerivedClaims(p).provenance.ruleset]
  <2>1. "provenance" \in Members(b)
    BY <1>12 DEF Claims, acceptedClaimsFromBundle
  <2>2. PICK k \in DOMAIN b : b[k].path = "provenance" /\ provenance = b[k].data
    BY <2>1, MemberOf
  <2>3. provenance = [inputs |-> provenance.inputs, ruleset |-> provenance.ruleset]
    BY <1>2, <2>2 DEF DecodedBundle
  <2>4. Claims(p).derived = {[provenance |-> provenance, sbom |-> Member(b, "sbom")]}
    BY <2>1 DEF Claims, acceptedClaimsFromBundle
  <2>5. DerivedClaims(p) = [provenance |-> provenance, sbom |-> Member(b, "sbom")]
    BY <2>4 DEF DerivedClaims
  <2>6. DerivedClaims(p).provenance = provenance
    BY <2>5
  <2> QED  BY <2>3, <2>6
<1> QED  BY <1>9, <1>10, <1>11, <1>12

LEMMA LookKeepsAbout ==
    ASSUME AboutInv, NEW p \in Procs, pc[p] \in Comparing, Reaches(p, Aside), pc'[p] # "resolve",
           DOMAIN plan' = Procs, \A q \in Procs \ {p} : plan'[q] = plan[q] /\ result'[q] = result[q],
           pc'[p] # "done" =>
             /\ SourceAt(trees, pc'[p], snaps'[p], walk'[p], since[p], plan'[p], Derived(Command(p)))
             /\ result'[p].about = {} /\ result'[p].evaluation = "none",
           \A about \in result'[p].about :
             \E i \in since[p]..result'[p].until : i <= Len(trees) /\ StandsAt(p, about, result'[p].evaluation, i, result'[p].until)
    PROVE  AboutInv'
<1>1. pc'[p] \notin BlankSteps \cup {"resolve"}
  BY DEF Reaches, Aside, Comparing, BlankSteps
<1>2. Command(p).op = "verify-attestation" => Command(p).current
  BY DEF AboutInv
<1>3. SourceAt(trees, pc'[p], snaps'[p], walk'[p], since[p], plan'[p], Derived(Command(p)))
  BY DEF SourceAt, SourceSteps
<1> QED  BY <1>1, <1>2, <1>3, ReachingKeepsAbout

\* The process ends without having said anything of the tree, or goes on.
LEMMA SilentLook ==
    ASSUME AboutInv, NEW p \in Procs, pc[p] \in Comparing, Reaches(p, Aside), pc'[p] # "resolve",
           DOMAIN plan' = Procs, \A q \in Procs \ {p} : plan'[q] = plan[q], Silent(p),
           \/ pc'[p] = "done"
           \/ SourceAt(trees, pc'[p], snaps'[p], walk'[p], since[p], plan'[p], Derived(Command(p)))
    PROVE  AboutInv'
BY LookKeepsAbout DEF Silent

LEMMA LookingFrame ==
    ASSUME Inv, TreeInv, NEW p \in Procs,
           \/ ResolveSource(p) \/ ListTree(p) \/ VisitFile(p) \/ EndWalk(p)
           \/ ReadPlan(p) \/ ReadDerivedInput(p) \/ ProbeFreshnessRunner(p) \/ BuildBundle(p)
    PROVE  /\ pc[p] \in Comparing /\ pc[p] # "done" /\ Reaches(p, Aside)
           /\ Command(p).op \in {"verify-attestation", "attest"}
           /\ Purpose(p) # "attest" => Command(p).op = "verify-attestation"
           /\ Purpose(p) \in {"attest", "freshness", "sbom"}
           /\ Purpose(p) = "sbom" => Claims(p).derived # {}
           /\ since[p] \in 1..Len(trees) /\ Len(trees) \in Nat
<1>1. BuildBundle(p) \/ Compares(p) \/ UNCHANGED <<pc, result>>
  BY ResolveSourceCompares, ListTreeCompares, VisitFileCompares, EndWalkCompares, ReadPlanCompares,
     ReadDerivedInputCompares, ProbeCompares
<1>2. pc[p] \in Comparing /\ pc[p] # "idle" /\ pc[p] # "done"
  BY DEF Comparing, ResolveSource, ListTree, VisitFile, EndWalk, ReadPlan, ReadDerivedInput, ProbeFreshnessRunner,
         BuildBundle
<1>3. UNCHANGED <<script, trees, since>>
  BY DEF ResolveSource, ListTree, VisitFile, EndWalk, ReadPlan, ReadDerivedInput, ProbeFreshnessRunner, BuildBundle
<1>4. \E x : walk' = [walk EXCEPT ![p] = x] \/ walk' = walk
  BY DEF ResolveSource, ListTree, VisitFile, EndWalk, ReadPlan, ReadDerivedInput, ProbeFreshnessRunner, BuildBundle
<1>5. \E x : snaps' = [snaps EXCEPT ![p] = x] \/ snaps' = snaps
  BY DEF ResolveSource, ListTree, VisitFile, EndWalk, ReadPlan, ReadDerivedInput, ProbeFreshnessRunner, BuildBundle
<1>6. /\ DOMAIN snaps' = Procs /\ DOMAIN walk' = Procs
      /\ \A q \in Procs \ {p} : snaps'[q] = snaps[q] /\ walk'[q] = walk[q]
  BY <1>4, <1>5 DEF TreeInv
<1>7. Reaches(p, Aside)
  <2>1. CASE BuildBundle(p)
    <3>1. pc'[p] = "done" /\ \A q \in Procs \ {p} : pc'[q] = pc[q]
      BY <2>1, Ways DEF BuildBundle, Inv
    <3> QED  BY <1>3, <1>6, <3>1 DEF Reaches, Aside
  <2>2. CASE ~BuildBundle(p)
    BY <1>1, <1>2, <1>3, <1>6, <2>2, ComparesReaches DEF Inv
  <2> QED  BY <2>1, <2>2
<1>8. Command(p).op \in {"verify-attestation", "attest"}
  BY <1>2 DEF Inv, Local, RightStep
<1>9. since[p] \in 1..Len(trees) /\ Len(trees) \in Nat
  BY <1>2 DEF TreeInv, History, IsSeq
<1> QED  BY <1>2, <1>7, <1>8, <1>9 DEF Purpose

LEMMA UnusableEnds ==
    ASSUME Inv, AboutInv, NEW p \in Procs, pc[p] # "done", NEW reason, Unusable(p, reason)
    PROVE  pc'[p] = "done" /\ Silent(p)
<1>1. Silent(p)
  BY SilentWays DEF Inv
<1>2. \A answer, about : Conclude(p, answer, about) => pc'[p] = "done"
  BY Ways DEF Conclude, Inv
<1>3. Purpose(p) \in {"attest", "freshness", "sbom"}
  BY DEF Purpose
<1>4. pc'[p] = "done"
  BY <1>2, <1>3, Ways DEF Unusable, sbomCurrentnessUnknown, freshnessUnknown, Inv
<1> QED  BY <1>1, <1>4

LEMMA ResolveKeepsAbout ==
    ASSUME Inv, TreeInv, AboutInv, NEW p \in Procs, ResolveSource(p)
    PROVE  AboutInv'
<1>1. /\ pc[p] \in Comparing /\ pc[p] # "done" /\ Reaches(p, Aside)
      /\ since[p] \in 1..Len(trees) /\ Len(trees) \in Nat
  BY LookingFrame
<1>2. /\ pc[p] = "resolve" /\ snaps' = snaps /\ plan' = plan
      /\ Goto(p, "list") \/ (\E answer : Conclude(p, answer, {})) \/ \E reason : Unusable(p, reason)
  BY DEF ResolveSource
<1>3. snaps[p] = <<>> /\ plan[p] = {} /\ DOMAIN plan = Procs
  BY <1>2 DEF AboutInv
<1>4. Silent(p)
  BY <1>1, <1>2, SilentWays DEF Inv
<1>5. pc'[p] = "list" \/ pc'[p] = "done"
  BY <1>1, <1>2, Ways, UnusableEnds DEF Conclude, Inv
<1>6. SourceAt(trees, "list", <<>>, walk'[p], since[p], {}, Derived(Command(p)))
  <2>1. SnapsAt(trees, "list", <<>>, walk'[p], {}, since[p], since[p], since[p])
    BY <1>1, NoSnaps
  <2>2. since[p] \in since[p]..Len(trees)
    BY <1>1
  <2> QED  BY <2>1, <2>2 DEF SourceAt
<1> QED  BY <1>1, <1>2, <1>3, <1>4, <1>5, <1>6, SilentLook

LEMMA ListKeepsAbout ==
    ASSUME Inv, TreeInv, AboutInv, NEW p \in Procs, ListTree(p)
    PROVE  AboutInv'
<1>1. /\ pc[p] \in Comparing /\ pc[p] # "done" /\ Reaches(p, Aside)
      /\ since[p] \in 1..Len(trees) /\ Len(trees) \in Nat
  BY LookingFrame
<1>2. /\ pc[p] = "list" /\ snaps' = snaps /\ plan' = plan /\ Goto(p, "walk")
  BY DEF ListTree
<1>7. PICK begun \in fetchList(Tree) : walk' = [walk EXCEPT ![p] = begun]
  BY DEF ListTree
<1>3. walk'[p] = begun /\ DOMAIN plan = Procs
  BY <1>7 DEF AboutInv, TreeInv
<1>4. Silent(p) /\ pc'[p] = "walk"
  BY <1>1, <1>2, SilentWays, Ways DEF Inv
<1>5. SourceAt(trees, "list", snaps[p], walk[p], since[p], plan[p], Derived(Command(p))) /\ History(trees)
  BY <1>2 DEF AboutInv, SourceOf, TreeInv
<1>6. SourceAt(trees, "walk", snaps[p], begun, since[p], plan[p], Derived(Command(p)))
  BY <1>1, <1>5, SnapsList DEF Tree
<1> QED  BY <1>1, <1>2, <1>3, <1>4, <1>6, SilentLook

LEMMA VisitKeepsAbout ==
    ASSUME Inv, TreeInv, AboutInv, NEW p \in Procs, VisitFile(p)
    PROVE  AboutInv'
<1>1. /\ pc[p] \in Comparing /\ pc[p] # "done" /\ Reaches(p, Aside)
      /\ since[p] \in 1..Len(trees) /\ Len(trees) \in Nat
  BY LookingFrame
<1>2. /\ pc[p] = "walk" /\ walk[p].todo # <<>> /\ snaps' = snaps /\ plan' = plan
  BY DEF VisitFile
<1>7. PICK visited \in Fetch(walk[p], Tree) :
        /\ walk' = [walk EXCEPT ![p] = visited]
        /\ (visited.ok /\ UNCHANGED <<pc, result>>) \/ Unusable(p, "source-unavailable")
  BY DEF VisitFile
<1>3. SourceAt(trees, "walk", snaps[p], walk[p], since[p], plan[p], Derived(Command(p))) /\ History(trees)
  BY <1>2 DEF AboutInv, SourceOf, TreeInv
<1>4. visited.ok => SourceAt(trees, "walk", snaps[p], visited, since[p], plan[p], Derived(Command(p)))
  BY <1>1, <1>2, <1>3, SnapsVisit DEF Tree
<1>5. walk'[p] = visited /\ DOMAIN plan = Procs
  BY <1>7 DEF AboutInv, TreeInv
<1>6. Silent(p) /\ ((visited.ok /\ pc'[p] = "walk") \/ pc'[p] = "done")
  BY <1>1, <1>2, <1>7, SilentWays, UnusableEnds DEF Inv
<1> QED  BY <1>1, <1>2, <1>4, <1>5, <1>6, SilentLook

LEMMA ReadPlanKeepsAbout ==
    ASSUME Inv, TreeInv, AboutInv, NEW p \in Procs, ReadPlan(p)
    PROVE  AboutInv'
<1> DEFINE read == {PlanOf(contentOf(Tree[ManifestPath]), snaps[p][2])}
<1>1. /\ pc[p] \in Comparing /\ pc[p] # "done" /\ Reaches(p, Aside)
      /\ since[p] \in 1..Len(trees) /\ Len(trees) \in Nat
  BY LookingFrame
<1>2. /\ pc[p] = "plan" /\ snaps' = snaps /\ walk' = walk
      /\ \/ Tree[ManifestPath].kind = "file" /\ plan' = [plan EXCEPT ![p] = read] /\ Goto(p, "list")
         \/ plan' = plan /\ \E answer : Conclude(p, answer, {})
  BY DEF ReadPlan, freshnessUnknown
<1>3. SourceAt(trees, "plan", snaps[p], walk[p], since[p], plan[p], Derived(Command(p))) /\ History(trees)
  BY <1>2 DEF AboutInv, SourceOf, TreeInv
<1>4. Tree[ManifestPath].kind = "file" =>
        SourceAt(trees, "list", snaps[p], walk[p], since[p], read, Derived(Command(p)))
  BY <1>1, <1>3, SnapsRead DEF Tree
<1> HIDE DEF read
<1>5. DOMAIN plan' = Procs /\ (\A q \in Procs \ {p} : plan'[q] = plan[q])
      /\ (plan' = [plan EXCEPT ![p] = read] => plan'[p] = read)
  BY <1>2 DEF AboutInv
<1>6. Silent(p)
  BY <1>1, <1>2, SilentWays DEF Inv
<1>7. \/ pc'[p] = "list" /\ Tree[ManifestPath].kind = "file" /\ plan'[p] = read
      \/ pc'[p] = "done"
  BY <1>2, <1>5, Ways DEF Conclude, Inv
<1> QED  BY <1>1, <1>2, <1>4, <1>5, <1>6, <1>7, SilentLook

LEMMA ReadInputKeepsAbout ==
    ASSUME Inv, TreeInv, AboutInv, NEW p \in Procs, ReadDerivedInput(p)
    PROVE  AboutInv'
<1>1. /\ pc[p] \in Comparing /\ pc[p] # "done" /\ Reaches(p, Aside)
      /\ since[p] \in 1..Len(trees) /\ Len(trees) \in Nat
  BY LookingFrame
<1>2. /\ pc[p] \in {"lock", "package"} /\ snaps' = snaps /\ walk' = walk /\ plan' = plan
      /\ Goto(p, "package") \/ Goto(p, "list") \/ \E reason : Unusable(p, reason)
  BY DEF ReadDerivedInput
<1>3. SourceAt(trees, pc[p], snaps[p], walk[p], since[p], plan[p], Derived(Command(p))) /\ DOMAIN plan = Procs
  BY DEF AboutInv, SourceOf
<1>4. \A s \in {"package", "list"} : SourceAt(trees, s, snaps[p], walk[p], since[p], plan[p], Derived(Command(p)))
  BY <1>2, <1>3, SnapsInputs
<1>5. Silent(p)
  BY <1>1, <1>2, SilentWays DEF Inv
<1>6. pc'[p] \in {"package", "list"} \/ pc'[p] = "done"
  BY <1>1, <1>2, Ways, UnusableEnds DEF Inv
<1> QED  BY <1>1, <1>2, <1>3, <1>4, <1>5, <1>6, SilentLook

\* An answer about a tree that was there ends the command.
LEMMA AnswerKeepsAbout ==
    ASSUME Inv, AboutInv, NEW p \in Procs, pc[p] \in Comparing, Reaches(p, Aside), plan' = plan,
           since[p] \in 1..Len(trees), Len(trees) \in Nat,
           Command(p).op \in {"verify-attestation", "attest"},
           NEW answer, NEW snapshot, NEW read, Conclude(p, answer, About(snapshot, read)),
           NEW m \in since[p]..Len(trees), WasThere(trees, snapshot.tree, m, Len(trees)),
           read # {} => read = {PlanOf(contentOf(trees[m][ManifestPath]), snapshot)},
           answer.evaluation = "current" =>
             /\ Claims(p).source.tree = snapshot.tree
             /\ Claims(p).plan = PlanOf(contentOf(trees[m][ManifestPath]), snapshot),
           answer.evaluation = "fresh" => DerivedClaims(p).provenance = Derivation(snapshot).provenance
    PROVE  AboutInv'
<1> DEFINE about == About(snapshot, read)
<1>1. /\ pc'[p] = "done" /\ \A q \in Procs \ {p} : result'[q] = result[q] /\ pc'[q] = pc[q]
      /\ result'[p].about \subseteq about /\ result'[p].evaluation = answer.evaluation
      /\ result'[p].until = Len(trees)
  BY ConcludeAbout DEF Inv
<1>6. m \in Nat /\ Len(trees) \in m..Len(trees)
  OBVIOUS
<1>2. \A x \in about : StandsAt(p, x, answer.evaluation, m, Len(trees))
  BY <1>6, AnswerStands
<1> HIDE DEF about
<1>3. m <= Len(trees) /\ m \in since[p]..result'[p].until
  BY <1>1
<1>4. \A x \in result'[p].about :
        \E i \in since[p]..result'[p].until : i <= Len(trees) /\ StandsAt(p, x, result'[p].evaluation, i, result'[p].until)
  BY <1>1, <1>2, <1>3
<1>5. DOMAIN plan' = Procs /\ \A q \in Procs \ {p} : plan'[q] = plan[q] /\ result'[q] = result[q]
  BY <1>1 DEF AboutInv
<1> QED  BY <1>1, <1>4, <1>5, LookKeepsAbout

LEMMA ProbeKeepsAbout ==
    ASSUME Inv, TreeInv, AboutInv, NEW p \in Procs, ProbeFreshnessRunner(p)
    PROVE  AboutInv'
<1> DEFINE snapshot == snaps[p][3]
           current == [Nothing EXCEPT !.source = {planSourceForSnapshot(snapshot)}, !.plan = plan[p]]
           seen(digest) == [current EXCEPT !.runner = {[comparable |-> TRUE, digest |-> digest]}]
<1>1. /\ pc[p] \in Comparing /\ pc[p] # "done" /\ Reaches(p, Aside)
      /\ Command(p).op \in {"verify-attestation", "attest"}
      /\ since[p] \in 1..Len(trees) /\ Len(trees) \in Nat
  BY LookingFrame
<1>2. /\ pc[p] = "runner" /\ plan' = plan
      /\ \/ \E answer : Conclude(p, answer, {})
         \/ \E digest \in {1, 2} :
              Conclude(p, EvaluateFreshness(Claims(p), seen(digest)), About(snapshot, plan[p]))
  BY DEF ProbeFreshnessRunner, freshnessUnknown
<1>3. CASE \E answer : Conclude(p, answer, {})
  <2>1. Silent(p) /\ pc'[p] = "done"
    BY <1>1, <1>3, SilentWays, Ways DEF Conclude, Inv
  <2> QED  BY <1>1, <1>2, <2>1, SilentLook DEF AboutInv
<1>4. ASSUME NEW digest \in {1, 2}, NEW answer, answer = EvaluateFreshness(Claims(p), seen(digest)),
             Conclude(p, answer, About(snapshot, plan[p]))
      PROVE  AboutInv'
  <2>1. Command(p).op = "verify-attestation"
    BY <1>2 DEF Inv, Local, RightStep
  <2>2. SourceAt(trees, "runner", snaps[p], walk[p], since[p], plan[p], Derived(Command(p)))
    BY <1>2 DEF AboutInv, SourceOf
  <2>3. PICK m, r, l \in since[p]..Len(trees) : SnapsAt(trees, "runner", snaps[p], walk[p], plan[p], m, r, l)
    BY <2>2 DEF SourceAt, SourceSteps
  <2>4. Len(snaps[p]) = 3 /\ 3 \in 2..3
    BY <2>3 DEF SnapsAt
  <2>5. /\ WasThere(trees, snapshot.tree, m, Len(trees))
        /\ plan[p] # {} => plan[p] = {PlanOf(contentOf(trees[m][ManifestPath]), snapshot)}
    BY <2>3, <2>4, SnapsMoment
  <2>6. seen(digest).source = {planSourceForSnapshot(snapshot)} /\ seen(digest).plan = plan[p]
    BY DEF Nothing
  <2> DEFINE new == PlanOf(contentOf(trees[m][ManifestPath]), snapshot)
  <2>7. ASSUME answer.evaluation = "current"
        PROVE  Claims(p).source.tree = snapshot.tree /\ Claims(p).plan = new
    <3> HIDE DEF seen, snapshot
    <3>1. /\ {planSourceForSnapshot(snapshot)} = {Claims(p).source} /\ plan[p] # {}
          /\ \A x \in plan[p] : x.policy = Claims(p).plan.policy /\ x.digest = Claims(p).plan.digest
      BY <1>4, <2>6, <2>7, FreshnessSays
    <3>2. planSourceForSnapshot(snapshot).tree = snapshot.tree
      BY DEF planSourceForSnapshot
    <3>3. new \in plan[p]
      BY <2>5, <3>1
    <3>4. new = [policy |-> new.policy, digest |-> new.digest]
      BY DEF PlanOf
    <3>5. Claims(p).plan = [policy |-> Claims(p).plan.policy, digest |-> Claims(p).plan.digest]
      BY <1>1, <2>1, ClaimsFacts
    <3> HIDE DEF new
    <3>6. Claims(p).plan = new
      BY <3>1, <3>3, <3>4, <3>5
    <3> QED  BY <3>1, <3>2, <3>6
  <2>8. answer.evaluation # "fresh"
    BY <1>4, FreshnessSays
  <2> HIDE DEF snapshot, seen
  <2> QED  BY <1>1, <1>2, <1>4, <2>3, <2>5, <2>7, <2>8, AnswerKeepsAbout
<1> QED  BY <1>2, <1>3, <1>4

LEMMA BuildKeepsAbout ==
    ASSUME Inv, TreeInv, AboutInv, NEW p \in Procs, BuildBundle(p)
    PROVE  AboutInv'
<1> DEFINE snapshot == snaps[p][3]
           c == Command(p)
<1>1. /\ pc[p] \in Comparing /\ pc[p] # "done" /\ Reaches(p, Aside)
      /\ c.op \in {"verify-attestation", "attest"}
      /\ since[p] \in 1..Len(trees) /\ Len(trees) \in Nat
  BY LookingFrame
<1>2. pc[p] = "build" /\ plan' = plan /\ DOMAIN plan = Procs
  BY DEF BuildBundle, AboutInv
<1>3. PICK made : \/ Fail(p, "signing")
                  \/ Finish(p, [result[p] EXCEPT !.status = "ok", !.made = made,
                        !.about = IF c.evidence = "derived" THEN About(snapshot, {}) ELSE {}])
  BY DEF BuildBundle
<1>4. CASE Fail(p, "signing")
  <2>1. Silent(p) /\ pc'[p] = "done"
    BY <1>1, <1>4, SilentWays, Ways DEF Inv
  <2> QED  BY <1>1, <1>2, <2>1, SilentLook
<1>5. CASE Finish(p, [result[p] EXCEPT !.status = "ok", !.made = made,
                        !.about = IF c.evidence = "derived" THEN About(snapshot, {}) ELSE {}])
  <2> DEFINE about == IF c.evidence = "derived" THEN About(snapshot, {}) ELSE {}
             o == [result[p] EXCEPT !.status = "ok", !.made = made, !.about = about]
  <2>1. ASSUME NEW x \in about
        PROVE  \E i \in since[p]..Len(trees) : StandsAt(p, x, "none", i, Len(trees))
    <3>1. c.evidence = "derived" /\ x \in About(snapshot, {})
      OBVIOUS
    <3>2. Derived(c)
      BY <1>2, <3>1 DEF Derived, Inv, Local, RightStep
    <3>3. SourceAt(trees, "build", snaps[p], walk[p], since[p], plan[p], Derived(c))
      BY <1>2 DEF AboutInv, SourceOf
    <3>4. PICK m, r, l \in since[p]..Len(trees) : SnapsAt(trees, "build", snaps[p], walk[p], plan[p], m, r, l)
      BY <3>2, <3>3 DEF SourceAt
    <3>5. Len(snaps[p]) = 3 /\ 3 \in 2..3
      BY <3>4 DEF SnapsAt
    <3>6. WasThere(trees, snapshot.tree, m, Len(trees))
      BY <3>4, <3>5, SnapsMoment
    <3>8. m \in Nat /\ Len(trees) \in m..Len(trees)
      BY <1>1
    <3>7. StandsAt(p, x, "none", m, Len(trees))
      BY <1>1, <3>1, <3>6, <3>8, AnswerStands
    <3> QED  BY <3>7
  <2>2. Finish(p, o)
    BY <1>5
  <2> HIDE DEF about
  <2>3. DOMAIN o = Fields /\ o.about = about /\ o.evaluation = "none"
    <3>1. DOMAIN result[p] = Fields /\ result[p].evaluation = "none"
      BY <1>1 DEF Inv, Types, AboutInv
    <3> QED  BY <3>1 DEF Fields
  <2> HIDE DEF o
  <2>4. /\ pc'[p] = "done" /\ \A q \in Procs \ {p} : result'[q] = result[q]
        /\ result'[p].about = about /\ result'[p].evaluation = "none" /\ result'[p].until = Len(trees)
    BY <2>2, <2>3, FinishAbout DEF Inv
  <2>5. \A x \in result'[p].about :
          \E i \in since[p]..result'[p].until : i <= Len(trees) /\ StandsAt(p, x, result'[p].evaluation, i, result'[p].until)
    <3>1. \A i \in since[p]..Len(trees) : i <= Len(trees)
      BY <1>1
    <3> QED  BY <2>1, <2>4, <3>1
  <2> QED  BY <1>1, <1>2, <2>4, <2>5, LookKeepsAbout
<1> QED  BY <1>3, <1>4, <1>5

\* The second snapshot of a tree that was there when it says it was.
LEMMA SecondKeepsAbout ==
    ASSUME Inv, TreeInv, AboutInv, NEW p \in Procs, EndWalk(p), NEW snapshot, UseSecond(p, snapshot),
           pc[p] = "walk", plan' = plan,
           NEW all, Len(all) = 2, all[2] = snapshot, snaps'[p] = all, walk'[p] = NoWalk,
           \E m, r, l \in since[p]..Len(trees) :
             /\ SnapsAt(trees, "lock", all, NoWalk, plan[p], m, r, l)
             /\ Lists(snapshot.tree, ManifestPath) => SnapsAt(trees, "plan", all, NoWalk, plan[p], m, r, l)
    PROVE  AboutInv'
<1>1. /\ pc[p] \in Comparing /\ pc[p] # "done" /\ Reaches(p, Aside)
      /\ Command(p).op \in {"verify-attestation", "attest"}
      /\ Purpose(p) # "attest" => Command(p).op = "verify-attestation"
      /\ Purpose(p) \in {"attest", "freshness", "sbom"}
      /\ since[p] \in 1..Len(trees) /\ Len(trees) \in Nat
  BY LookingFrame
<1>2. PICK m, r, l \in since[p]..Len(trees) :
        /\ SnapsAt(trees, "lock", all, NoWalk, plan[p], m, r, l)
        /\ Lists(snapshot.tree, ManifestPath) => SnapsAt(trees, "plan", all, NoWalk, plan[p], m, r, l)
  OBVIOUS
<1>3. SourceAt(trees, "lock", snaps'[p], walk'[p], since[p], plan'[p], Derived(Command(p)))
  BY <1>2 DEF SourceAt
<1> DEFINE current == [Nothing EXCEPT !.source = {planSourceForSnapshot(snapshot)}]
           answer == EvaluateFreshness(Claims(p), current)
<1>4. /\ Purpose(p) # "freshness" => Goto(p, "lock") \/ (\E x : Fail(p, x)) \/ \E x : Unusable(p, x)
      /\ Purpose(p) = "freshness" => \/ answer.reason = "plan-unavailable" /\ Goto(p, "plan")
                                     \/ Conclude(p, answer, About(snapshot, {}))
  BY <1>1 DEF UseSecond
<1>5. CASE Purpose(p) # "freshness"
  <2>1. Silent(p) /\ (pc'[p] = "lock" \/ pc'[p] = "done")
    BY <1>1, <1>4, <1>5, SilentWays, Ways, UnusableEnds DEF Inv
  <2> QED  BY <1>1, <1>3, <2>1, SilentLook DEF AboutInv
<1>6. CASE Purpose(p) = "freshness"
  <2>1. /\ current.reason = "none" /\ current.source = {planSourceForSnapshot(snapshot)} /\ current.plan = {}
        /\ planSourceForSnapshot(snapshot).tree = snapshot.tree
    BY DEF Nothing, planSourceForSnapshot
  <2> HIDE DEF current
  <2>2. answer.evaluation # "current" /\ answer.evaluation # "fresh"
    BY <2>1, FreshnessSays
  <2>3. answer.reason = "plan-unavailable" => {planSourceForSnapshot(snapshot)} = {Claims(p).source}
    BY <2>1, FreshnessSays
  <2> HIDE DEF answer
  <2>4. CASE answer.reason = "plan-unavailable" /\ Goto(p, "plan")
    <3>1. Claims(p).source.tree = snapshot.tree
      BY <2>1, <2>3, <2>4
    <3>2. Lists(snapshot.tree, ManifestPath)
      BY <1>1, <1>6, <3>1, ClaimsFacts
    <3>3. SourceAt(trees, "plan", snaps'[p], walk'[p], since[p], plan'[p], Derived(Command(p)))
      BY <1>2, <3>2 DEF SourceAt
    <3>4. Silent(p) /\ pc'[p] = "plan"
      BY <1>1, <2>4, SilentWays, Ways DEF Inv
    <3> QED  BY <1>1, <3>3, <3>4, SilentLook DEF AboutInv
  <2>5. CASE Conclude(p, answer, About(snapshot, {}))
    <3>1. WasThere(trees, snapshot.tree, m, Len(trees))
      BY <1>2, SnapsMoment
    <3> QED  BY <1>1, <2>2, <2>5, <3>1, AnswerKeepsAbout
  <2> QED  BY <1>4, <1>6, <2>4, <2>5
<1> QED  BY <1>5, <1>6

\* The third agrees with it: what was read in between belongs to it.
LEMMA ThirdKeepsAbout ==
    ASSUME Inv, TreeInv, AboutInv, NEW p \in Procs, EndWalk(p), NEW snapshot, UseThird(p, snapshot),
           pc[p] = "walk", plan' = plan,
           NEW all, Len(all) = 3, all[3] = snapshot, snaps'[p] = all, walk'[p] = NoWalk,
           \E m, r, l \in since[p]..Len(trees) :
             /\ SnapsAt(trees, "runner", all, NoWalk, plan[p], m, r, l)
             /\ SnapsAt(trees, "build", all, NoWalk, plan[p], m, r, l)
    PROVE  AboutInv'
<1>1. /\ pc[p] \in Comparing /\ pc[p] # "done" /\ Reaches(p, Aside)
      /\ Command(p).op \in {"verify-attestation", "attest"}
      /\ Purpose(p) # "attest" => Command(p).op = "verify-attestation"
      /\ Purpose(p) \in {"attest", "freshness", "sbom"}
      /\ Purpose(p) = "sbom" => Claims(p).derived # {}
      /\ since[p] \in 1..Len(trees) /\ Len(trees) \in Nat
  BY LookingFrame
<1>2. PICK m, r, l \in since[p]..Len(trees) :
        /\ SnapsAt(trees, "runner", all, NoWalk, plan[p], m, r, l)
        /\ SnapsAt(trees, "build", all, NoWalk, plan[p], m, r, l)
  OBVIOUS
<1>3. \A s \in {"runner", "build"} :
        SourceAt(trees, s, snaps'[p], walk'[p], since[p], plan'[p], Derived(Command(p)))
  BY <1>2 DEF SourceAt
<1>4. /\ WasThere(trees, snapshot.tree, m, Len(trees))
      /\ plan[p] # {} => plan[p] = {PlanOf(contentOf(trees[m][ManifestPath]), snapshot)}
  <2>1. 3 \in 2..3
    OBVIOUS
  <2> QED  BY <1>2, <2>1, SnapsMoment
<1> DEFINE current == [Nothing EXCEPT !.source = {planSourceForSnapshot(snapshot)}, !.plan = plan[p]]
           fresh == EvaluateFreshness(Claims(p), current)
           derived == EvaluateSBOMCurrentness(DerivedClaims(p), {Derivation(snapshot)}, "", Ruleset)
<1>5. \/ Goto(p, "runner") \/ Goto(p, "build")
      \/ Conclude(p, fresh, About(snapshot, plan[p]))
      \/ Purpose(p) = "sbom" /\ Conclude(p, derived, About(snapshot, {}))
  BY <1>1 DEF UseThird
<1>6. CASE Goto(p, "runner") \/ Goto(p, "build")
  <2>1. Silent(p) /\ pc'[p] \in {"runner", "build"}
    BY <1>1, <1>6, SilentWays, Ways DEF Inv
  <2> QED  BY <1>1, <1>3, <2>1, SilentLook DEF AboutInv
<1>7. CASE Conclude(p, fresh, About(snapshot, plan[p]))
  <2>1. current.runner = {}
    BY DEF Nothing
  <2> HIDE DEF current
  <2>2. fresh.evaluation # "current" /\ fresh.evaluation # "fresh"
    BY <2>1, FreshnessSays
  <2> HIDE DEF fresh
  <2> QED  BY <1>1, <1>4, <1>7, <2>2, AnswerKeepsAbout
<1>8. CASE Purpose(p) = "sbom" /\ Conclude(p, derived, About(snapshot, {}))
  <2> DEFINE d == Derivation(snapshot)
  <2>1. d.provenance = [inputs |-> d.provenance.inputs, ruleset |-> d.provenance.ruleset]
    BY DerivationOfTree
  <2>2. DerivedClaims(p).provenance = [inputs |-> DerivedClaims(p).provenance.inputs,
                                       ruleset |-> DerivedClaims(p).provenance.ruleset]
    BY <1>1, <1>8, ClaimsFacts
  <2> HIDE DEF d
  <2>3. derived = EvaluateSBOMCurrentness(DerivedClaims(p), {d}, "", Ruleset)
    BY DEF d
  <2> HIDE DEF derived
  <2>4. /\ derived.evaluation # "current"
        /\ derived.evaluation = "fresh" =>
             d.provenance.ruleset = DerivedClaims(p).provenance.ruleset
             /\ d.provenance.inputs = DerivedClaims(p).provenance.inputs
    BY <2>3 DEF EvaluateSBOMCurrentness, Unknown, Stale
  <2>5. derived.evaluation = "fresh" => DerivedClaims(p).provenance = d.provenance
    BY <2>1, <2>2, <2>4
  <2> QED  BY <1>1, <1>4, <1>8, <2>4, <2>5, AnswerKeepsAbout DEF d
<1> QED  BY <1>5, <1>6, <1>7, <1>8

LEMMA EndWalkKeepsAbout ==
    ASSUME Inv, TreeInv, AboutInv, NEW p \in Procs, EndWalk(p)
    PROVE  AboutInv'
<1> DEFINE snapshot == snapshotOf(walk[p], Command(p).commit)
           all == Append(snaps[p], snapshot)
<1>1. /\ pc[p] \in Comparing /\ pc[p] # "done" /\ Reaches(p, Aside)
      /\ since[p] \in 1..Len(trees) /\ Len(trees) \in Nat
  BY LookingFrame
<1>2. /\ pc[p] = "walk" /\ walk[p].todo = <<>> /\ plan' = plan
      /\ snaps' = [snaps EXCEPT ![p] = all] /\ walk' = [walk EXCEPT ![p] = NoWalk]
      /\ \/ Len(all) = 1 /\ Goto(p, "list")
         \/ \E reason : Unusable(p, reason)
         \/ Len(all) # 1 /\ sameSnapshotIdentity(all[1], snapshot)
            /\ (IF Len(all) = 2 THEN UseSecond(p, snapshot) ELSE UseThird(p, snapshot))
  BY DEF EndWalk
<1>3. snapshot.tree = Inventory(walk[p].entries)
  BY DEF snapshotOf
<1>4. sameSnapshotIdentity(all[1], snapshot) => all[1].tree = snapshot.tree
  BY DEF sameSnapshotIdentity
<1>5. Longer(all, snaps[p], snapshot)
  BY DEF Longer
<1>6. SourceAt(trees, "walk", snaps[p], walk[p], since[p], plan[p], Derived(Command(p))) /\ History(trees)
  BY <1>2 DEF AboutInv, SourceOf, TreeInv
<1> HIDE DEF all, snapshot
<1>7. snaps'[p] = all /\ walk'[p] = NoWalk
  BY <1>2 DEF TreeInv
<1>8. CASE \E reason : Unusable(p, reason)
  <2>1. Silent(p) /\ pc'[p] = "done"
    BY <1>1, <1>8, UnusableEnds
  <2> QED  BY <1>1, <1>2, <2>1, SilentLook DEF AboutInv
<1>9. CASE Len(all) # 1 => all[1].tree = snapshot.tree
  <2>1. /\ Len(all) \in 1..3 /\ all[Len(all)] = snapshot
        /\ Len(all) = 1 => \E m, r, l \in since[p]..Len(trees) :
             SnapsAt(trees, "list", all, NoWalk, plan[p], m, r, l)
        /\ Len(all) = 2 => \E m, r, l \in since[p]..Len(trees) :
             /\ SnapsAt(trees, "lock", all, NoWalk, plan[p], m, r, l)
             /\ Lists(snapshot.tree, ManifestPath) => SnapsAt(trees, "plan", all, NoWalk, plan[p], m, r, l)
        /\ Len(all) = 3 => \E m, r, l \in since[p]..Len(trees) :
             SnapsAt(trees, "runner", all, NoWalk, plan[p], m, r, l)
             /\ SnapsAt(trees, "build", all, NoWalk, plan[p], m, r, l)
    <3> DEFINE from == since[p]
               taken == snaps[p]
               w == walk[p]
               read == plan[p]
               derived == Derived(Command(p))
    <3>1. History(trees) /\ from \in 1..Len(trees) /\ SourceAt(trees, "walk", taken, w, from, read, derived)
      BY <1>1, <1>6
    <3>2. w.todo = <<>> /\ snapshot.tree = Inventory(w.entries) /\ Longer(all, taken, snapshot)
      BY <1>2, <1>3, <1>5
    <3> HIDE DEF from, taken, w, read, derived
    <3>3. AfterWalk(trees, all, snapshot, from, read)
      BY <1>9, <3>1, <3>2, SnapsEnd
    <3> QED  BY <3>3 DEF from, read, AfterWalk
  <2>2. CASE Len(all) = 1 /\ Goto(p, "list")
    <3>1. SourceAt(trees, "list", all, NoWalk, since[p], plan[p], Derived(Command(p)))
      BY <2>1, <2>2 DEF SourceAt
    <3>2. Silent(p) /\ pc'[p] = "list"
      BY <1>1, <2>2, SilentWays, Ways DEF Inv
    <3> QED  BY <1>1, <1>2, <1>7, <3>1, <3>2, SilentLook DEF AboutInv
  <2>3. CASE Len(all) = 2 /\ UseSecond(p, snapshot)
    <3>1. all[2] = snapshot
      BY <2>1, <2>3
    <3> QED  BY <1>2, <1>7, <2>1, <2>3, <3>1, SecondKeepsAbout
  <2>4. CASE Len(all) = 3 /\ UseThird(p, snapshot)
    <3>1. all[3] = snapshot
      BY <2>1, <2>4
    <3> QED  BY <1>2, <1>7, <2>1, <2>4, <3>1, ThirdKeepsAbout
  <2>5. Len(all) = 1 \/ Len(all) = 2 \/ Len(all) = 3
    <3> DEFINE n == Len(all)
    <3>1. n \in 1..3
      BY <2>1
    <3> HIDE DEF n
    <3>2. n = 1 \/ n = 2 \/ n = 3
      BY <3>1
    <3> QED  BY <3>2 DEF n
  <2> QED  BY <1>2, <1>8, <2>2, <2>3, <2>4, <2>5
<1> QED  BY <1>2, <1>4, <1>8, <1>9

\* The artifacts were all there at one moment of the two scans.
LEMMA InspectKeepsAbout ==
    ASSUME Inv, TreeInv, AboutInv, NEW p \in Procs, InspectedArtifacts(p)
    PROVE  AboutInv'
<1> DEFINE c == Command(p)
           files == snaps[p][2]
           about == AboutArtifacts(p)
<1>1. pc[p] = "names" /\ UNCHANGED <<script, trees, since, snaps, walk, plan>> /\ Types
  BY DEF InspectedArtifacts, Inv
<1>2. /\ result[p].about = {} /\ result[p].evaluation = "none" /\ DOMAIN result[p] = Fields
      /\ DOMAIN plan = Procs /\ DOMAIN snaps = Procs /\ DOMAIN walk = Procs
      /\ since[p] \in 1..Len(trees) /\ Len(trees) \in Nat /\ History(trees)
  BY <1>1 DEF AboutInv, Types, TreeInv, History, IsSeq
<1>3. c.op \in {"verify-release-index", "sign-release-index"}
  BY <1>1 DEF Inv, Local, RightStep
<1>4. PICK made : \/ Goto(p, "index-state") \/ \E reason : Fail(p, reason)
                  \/ Finish(p, [result[p] EXCEPT !.status = "ok", !.about = about, !.made = made])
                  \/ Finish(p, [Accepted(p) EXCEPT !.about = about])
  BY DEF InspectedArtifacts
<1>5. PICK m \in since[p]..Len(trees) : ArtifactsOf(trees[m]) = files
  <2>1. ScanAt(trees, "names", snaps[p], walk[p], since[p], c.index.files) /\ "names" \in Scanned
    BY <1>1 DEF TreeInv, ScanOf, Scanned
  <2> QED  BY <1>2, <2>1, ScanSawOneMoment
<1>6. \A x \in about : StandsAt(p, x, "none", m, Len(trees))
  <2>1. \A x \in about : x.tree = files /\ x.manifest = {}
    BY DEF AboutArtifacts
  <2> HIDE DEF about, files
  <2>2. Len(trees) \in m..Len(trees)
    BY <1>2
  <2> QED  BY <1>3, <1>5, <2>1, <2>2 DEF StandsAt
<1> HIDE DEF about, files
<1>7. ASSUME NEW o, DOMAIN o = Fields, o.about = about, o.evaluation = "none", Finish(p, o)
      PROVE  /\ pc'[p] = "done" /\ \A q \in Procs \ {p} : result'[q] = result[q] /\ pc'[q] = pc[q]
             /\ result'[p].about = about /\ result'[p].evaluation = "none" /\ result'[p].until = Len(trees)
  BY <1>1, <1>7, FinishAbout
<1>8. \/ Silent(p) /\ pc'[p] \in {"index-state", "done"} /\ \A q \in Procs \ {p} : pc'[q] = pc[q]
      \/ /\ pc'[p] = "done" /\ \A q \in Procs \ {p} : result'[q] = result[q] /\ pc'[q] = pc[q]
         /\ result'[p].about = about /\ result'[p].evaluation = "none" /\ result'[p].until = Len(trees)
  <2>1. CASE Goto(p, "index-state") \/ \E reason : Fail(p, reason)
    BY <1>1, <2>1, SilentWays, Ways
  <2>2. CASE Finish(p, [result[p] EXCEPT !.status = "ok", !.about = about, !.made = made])
    <3> DEFINE o == [result[p] EXCEPT !.status = "ok", !.about = about, !.made = made]
    <3>1. DOMAIN o = Fields /\ o.about = about /\ o.evaluation = "none"
      BY <1>2 DEF Fields
    <3> HIDE DEF o
    <3> QED  BY <1>7, <2>2, <3>1 DEF o
  <2>3. CASE Finish(p, [Accepted(p) EXCEPT !.about = about])
    <3> DEFINE o == [Accepted(p) EXCEPT !.about = about]
    <3>1. DOMAIN o = Fields /\ o.about = about /\ o.evaluation = "none"
      BY <1>2 DEF Fields, Accepted
    <3> HIDE DEF o
    <3> QED  BY <1>7, <2>3, <3>1 DEF o
  <2> QED  BY <1>4, <2>1, <2>2, <2>3
<1>9. Reaches(p, {"index-state", "done"})
  BY <1>1, <1>2, <1>8 DEF Reaches
<1>10. /\ pc'[p] \notin BlankSteps \cup {"resolve"} /\ pc'[p] \notin Comparing
       /\ SourceAt(trees, pc'[p], snaps'[p], walk'[p], since[p], plan'[p], Derived(c))
  BY <1>8 DEF BlankSteps, Comparing, SourceAt, SourceSteps
<1>11. \A x \in result'[p].about :
         \E i \in since[p]..result'[p].until : i <= Len(trees) /\ StandsAt(p, x, result'[p].evaluation, i, result'[p].until)
  <2>1. CASE Silent(p)
    BY <2>1 DEF Silent
  <2>2. CASE result'[p].about = about /\ result'[p].evaluation = "none" /\ result'[p].until = Len(trees)
    <3>1. m <= Len(trees) /\ m \in since[p]..result'[p].until
      BY <1>2, <1>5, <2>2
    <3> QED  BY <1>6, <2>2, <3>1
  <2> QED  BY <1>8, <2>1, <2>2
<1>12. /\ \A q \in Procs \ {p} : plan'[q] = plan[q] /\ result'[q] = result[q]
       /\ pc'[p] # "done" => result'[p].about = {} /\ result'[p].evaluation = "none"
       /\ DOMAIN plan' = Procs
  BY <1>1, <1>2, <1>8 DEF Silent
<1> QED  BY <1>9, <1>10, <1>11, <1>12, ReachingKeepsAbout

LEMMA BeginKeepsAbout ==
    ASSUME Inv, TreeInv, AboutInv, NEW p \in Procs, Begin(p)
    PROVE  AboutInv'
<1>1. /\ pc[p] = "idle" /\ UNCHANGED <<script, trees, snaps, walk, plan, result>>
      /\ since' = [since EXCEPT ![p] = Len(trees)]
      /\ Procs' = Procs /\ \A q \in Procs : Command(q)' = Command(q)
  BY DEF Begin, Goto, Procs, Command
<1>2. pc'[p] = "start" /\ \A q \in Procs \ {p} : pc'[q] = pc[q]
  BY Ways DEF Inv, Begin
<1>3. DOMAIN since' = Procs /\ \A q \in Procs \ {p} : since'[q] = since[q]
  BY <1>1 DEF TreeInv
<1>4. ASSUME NEW q, NEW about, NEW evaluation, NEW i, NEW u, q \in Procs, StandsAt(q, about, evaluation, i, u)
      PROVE  StandsAt(q, about, evaluation, i, u)'
  BY <1>1, <1>4, StandingStays
<1>5. ASSUME NEW q \in Procs
      PROVE  /\ pc'[q] \in BlankSteps \cup {"resolve"} => snaps'[q] = <<>> /\ plan'[q] = {}
             /\ (pc'[q] \in Comparing /\ Command(q)'.op = "verify-attestation") => Command(q)'.current
             /\ SourceOf(q)'
             /\ pc'[q] # "done" => result'[q].about = {} /\ result'[q].evaluation = "none"
             /\ \A about \in result'[q].about :
                  \E i \in since'[q]..result'[q].until :
                    i <= Len(trees') /\ StandsAt(q, about, result'[q].evaluation, i, result'[q].until)
  <2>1. CASE q = p
    <3>1. snaps[p] = <<>> /\ plan[p] = {} /\ result[p].about = {} /\ result[p].evaluation = "none"
      BY <1>1 DEF AboutInv, BlankSteps
    <3>2. "start" \notin Comparing /\ SourceOf(p)'
      BY <1>2 DEF SourceOf, SourceAt, SourceSteps, Comparing
    <3> QED  BY <1>1, <1>2, <2>1, <3>1, <3>2
  <2>2. CASE q # p
    BY <1>1, <1>2, <1>3, <2>2 DEF AboutInv, SourceOf
  <2> QED  BY <2>1, <2>2
<1> QED  BY <1>1, <1>4, <1>5 DEF AboutInv

LEMMA EditKeepsAbout ==
    ASSUME Inv, TreeInv, AboutInv, EditTree
    PROVE  AboutInv'
<1>1. /\ UNCHANGED <<script, pc, snaps, walk, plan, since, result>>
      /\ Procs' = Procs /\ \A q \in Procs : Command(q)' = Command(q)
  BY DEF EditTree, Procs, Command
<1>2. PICK tree : trees' = Append(trees, tree)
  BY DEF EditTree
<1>3. /\ Len(trees') = Len(trees) + 1 /\ Len(trees) \in Nat
      /\ \A i \in 1..Len(trees) : trees'[i] = trees[i]
  BY <1>2, AppendIsSeq DEF TreeInv, History
<1>4. ASSUME NEW q \in Procs
      PROVE  SourceOf(q)'
  <2>1. SourceAt(trees, pc[q], snaps[q], walk[q], since[q], plan[q], Derived(Command(q)))
    BY DEF AboutInv, SourceOf
  <2>2. CASE pc[q] = "idle"
    BY <1>1, <2>2 DEF SourceOf, SourceAt, SourceSteps
  <2>3. CASE pc[q] # "idle"
    <3>1. since[q] \in Nat \ {0}
      <4>1. since[q] \in 1..Len(trees)
        BY <2>3 DEF TreeInv
      <4> QED  BY <1>3, <4>1
    <3>2. SourceAt(trees', pc[q], snaps[q], walk[q], since[q], plan[q], Derived(Command(q)))
      BY <1>2, <2>1, <3>1, SourceGrows DEF TreeInv
    <3> QED  BY <1>1, <3>2 DEF SourceOf
  <2> QED  BY <2>2, <2>3
<1>5. ASSUME NEW q \in Procs, NEW about \in result[q].about
      PROVE  \E i \in since[q]..result[q].until :
               i <= Len(trees') /\ StandsAt(q, about, result[q].evaluation, i, result[q].until)'
  <2>1. PICK i \in since[q]..result[q].until : i <= Len(trees) /\ StandsAt(q, about, result[q].evaluation, i, result[q].until)
    BY DEF AboutInv
  <2>2. pc[q] # "idle"
    BY DEF AboutInv
  <2>3. since[q] \in 1..Len(trees)
    BY <2>2 DEF TreeInv
  <2>4. i \in 1..Len(trees) /\ i <= Len(trees')
    BY <1>3, <2>1, <2>3
  <2>5. StandsAt(q, about, result[q].evaluation, i, result[q].until)'
    <3> DEFINE u == result[q].until
    <3>1. u \in i..Len(trees) => /\ u \in i..Len(trees') /\ trees'[i] = trees[i]
                                /\ \A j \in i..u : trees'[j] = trees[j]
      BY <1>3, <2>4
    <3>2. result'[q].evaluation = result[q].evaluation /\ result'[q].until = u
      BY <1>1
    <3> HIDE DEF u
    <3>3. StandsAt(q, about, result[q].evaluation, i, u)
      BY <2>1 DEF u
    <3> QED  BY <1>1, <3>1, <3>2, <3>3, StandingStays DEF u
  <2> QED  BY <2>1, <2>4, <2>5
<1> QED  BY <1>1, <1>4, <1>5 DEF AboutInv

LEMMA UnchangedKeepsAbout ==
    ASSUME AboutInv, UNCHANGED vars
    PROVE  AboutInv'
<1>1. UNCHANGED <<script, pc, snaps, walk, plan, since, trees, result>>
  BY DEF vars
<1>2. Procs' = Procs /\ \A q \in Procs : Command(q)' = Command(q)
  BY <1>1 DEF Procs, Command
<1>3. ASSUME NEW q, NEW about, NEW evaluation, NEW i, NEW u, q \in Procs, StandsAt(q, about, evaluation, i, u)
      PROVE  StandsAt(q, about, evaluation, i, u)'
  BY <1>1, <1>2, <1>3, StandingStays
<1> QED  BY <1>1, <1>2, <1>3 DEF AboutInv, SourceOf

LEMMA InitAbout == Init => AboutInv
<1> SUFFICES ASSUME Init PROVE AboutInv
  OBVIOUS
<1>1. /\ DOMAIN plan = Procs
      /\ \A p \in Procs : pc[p] = "idle" /\ snaps[p] = <<>> /\ plan[p] = {}
                          /\ result[p].about = {} /\ result[p].evaluation = "none"
  BY DEF Init, Running
<1>2. "idle" \notin Comparing /\ "idle" \notin SourceSteps
  BY DEF Comparing, SourceSteps
<1> QED  BY <1>1, <1>2 DEF AboutInv, SourceOf, SourceAt

LEMMA NextAbout ==
    ASSUME Inv, TreeInv, AboutInv, [Next]_vars
    PROVE  AboutInv'
<1>1. CASE EditTree
  BY <1>1, EditKeepsAbout
<1>2. CASE UNCHANGED vars
  BY <1>2, UnchangedKeepsAbout
<1>3. ASSUME NEW p \in Procs, Step(p) PROVE AboutInv'
  BY <1>3, BeginKeepsAbout, UnlookingKeepsAbout, ResolveKeepsAbout, ListKeepsAbout, VisitKeepsAbout,
     EndWalkKeepsAbout, ReadPlanKeepsAbout, ReadInputKeepsAbout, ProbeKeepsAbout, BuildKeepsAbout,
     InspectKeepsAbout DEF Step, Unlooking
<1> QED  BY <1>1, <1>2, <1>3 DEF Next

\* What verify-attestation says of a source tree (current, stale, fresh), what
\* attest signs of one and what the release commands say of an artifact
\* directory was there while the command ran, however it was edited: all the
\* files at one moment, and each directory's names at that moment or later.
THEOREM ObservationExisted == Spec => []ObservedTreeExisted
<1>1. Init => Inv /\ TreeInv /\ AboutInv
  BY InitInv, InitTree, InitAbout
<1>2. Inv /\ TreeInv /\ AboutInv /\ [Next]_vars => Inv' /\ TreeInv' /\ AboutInv'
  BY NextInv, NextTree, NextAbout
<1>3. AboutInv => ObservedTreeExisted
  <2>1. \A tree, i, u : WasThere(trees, tree, i, u) => SourceWasThere(tree, i, u)
    BY DEF WasThere, SourceWasThere
  <2> QED  BY <2>1 DEF AboutInv, ObservedTreeExisted, StandsAt
<1> QED  BY <1>1, <1>2, <1>3, PTL DEF Spec
=============================================================================
