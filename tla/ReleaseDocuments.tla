-------------------------- MODULE ReleaseDocuments --------------------------
(***************************************************************************)
(* internal/releaseindex's signed documents: the release index, the        *)
(* release key policy, the transition of the release authority and the     *)
(* chain of hops.  Keys, payloads and envelopes are those of               *)
(* TrustDocuments; a payload's scope is the product, channel and purpose   *)
(* it names, "release" being the only one this build knows.                *)
(*                                                                         *)
(* An index lists files as a sequence of [path, content]; a path is a      *)
(* number, its order that of the names, SumsPath the checksum list.        *)
(***************************************************************************)
EXTENDS TrustDocuments

CONSTANT FileLimit          \* MaxFiles

ASSUME FileBound == FileLimit \in Nat \ {0}

SumsPath == 1

Release == "release"

signPayload(type, payload, key) == Signed(type, key, payload)

authenticateEnvelope(envelope, type, key) == authentic(envelope, type, key)

parseCanonicalSPKI(key) == key # NoKey

-----------------------------------------------------------------------------
(* The index. *)

validateIndex(index) ==
    /\ index.scope = Release
    /\ validGeneration(index.generation)
    /\ Len(index.files) \in 1..FileLimit
    /\ \A i \in 1..(Len(index.files) - 1) : index.files[i].path < index.files[i + 1].path
    /\ \E i \in DOMAIN index.files : index.files[i].path = SumsPath

ParseIndex(index) == index.kind = "index" /\ validateIndex(index)

\* The index of a set of files inspected by the caller, or nothing.
BuildIndex(files, generation) ==
    LET index == [kind |-> "index", scope |-> Release, generation |-> generation, files |-> files]
    IN  IF validGeneration(generation) /\ validateIndex(index) THEN {index} ELSE {}

SignIndex(index, key) ==
    IF ParseIndex(index) /\ parseCanonicalSPKI(key)
    THEN {signPayload("index", index, key)} ELSE {}

\* The floor is carried along and compared only once the signer is authorised.
AuthenticateSignedIndex(index, envelope, signer, minimum) ==
    /\ validGeneration(minimum)
    /\ ParseIndex(index)
    /\ parseCanonicalSPKI(signer)
    /\ authenticateEnvelope(envelope, "index", signer)
    /\ envelope.payload = index

CheckExpectedIndexDigest(index, expected) == index = expected

-----------------------------------------------------------------------------
(* The key policy. *)

validatePolicy(policy) ==
    /\ policy.scope = Release
    /\ validGeneration(policy.generation)
    /\ Len(policy.keys) \in 1..KeyLimit
    /\ \A i \in DOMAIN policy.keys : /\ validKeyID(policy.keys[i].key)
                                     /\ policy.keys[i].status \in {"trusted", "revoked"}
    /\ StrictlyOrdered(policy.keys)

ParsePolicyPayload(policy) == policy.kind = "release-policy" /\ validatePolicy(policy)

EvaluateReleaseSignerKeyID(policy, signer) ==
    IF validKeyID(signer) THEN statusOf(policy, signer) ELSE "invalid"

SignPolicyWithAuthority(policy, authority) ==
    IF /\ validatePolicy(policy)
       /\ parseCanonicalSPKI(authority)
       /\ ~Listed(policy, authority)
    THEN {signPayload("release-policy", policy, authority)} ELSE {}

VerifyPolicy(envelope, authority, minimum) ==
    /\ validGeneration(minimum)
    /\ parseCanonicalSPKI(authority)
    /\ authenticateEnvelope(envelope, "release-policy", authority)
    /\ ParsePolicyPayload(envelope.payload)
    /\ envelope.payload.scope = Release
    /\ envelope.payload.generation >= minimum
    /\ ~Listed(envelope.payload, authority)

AuthorizeSignedIndex(index, signer, policy, authority, minimum) ==
    /\ policy.scope = index.scope
    /\ signer # authority
    /\ EvaluateReleaseSignerKeyID(policy, signer) = "trusted"
    /\ index.generation >= minimum

-----------------------------------------------------------------------------
(* The authority's transition and chain. *)

validateAuthorityTransition(transition) ==
    /\ transition.scope = Release
    /\ validGeneration(transition.generation)
    /\ validKeyID(transition.previous)
    /\ validKeyID(transition.next)
    /\ transition.previous # transition.next

ParseAuthorityTransitionPayload(transition) ==
    transition.kind = "release-transition" /\ validateAuthorityTransition(transition)

VerifyAuthorityTransition(envelope, previous, next, minimum) ==
    /\ validGeneration(minimum)
    /\ parseCanonicalSPKI(previous) /\ parseCanonicalSPKI(next) /\ previous # next
    /\ authenticateEnvelope(envelope, "release-transition", previous)
    /\ ParseAuthorityTransitionPayload(envelope.payload)
    /\ envelope.payload.previous = previous
    /\ envelope.payload.next = next
    /\ envelope.payload.generation >= minimum

SignAuthorityTransition(next, generation, previous) ==
    LET payload == [kind |-> "release-transition", scope |-> Release, previous |-> previous,
                    next |-> next, generation |-> generation]
        envelope == signPayload("release-transition", payload, previous)
    IN  IF /\ validGeneration(generation)
           /\ validateAuthorityTransition(payload)
           /\ VerifyAuthorityTransition(envelope, previous, next, generation)
        THEN {envelope} ELSE {}

validateAuthorityTransitionChainShape(chain) ==
    chain.scope = Release /\ Len(chain.hops) \in MinHops..MaxHops

VerifyAuthorityTransitionChain(chain, root, terminal, minimum) ==
    LET path == AuthorityKeyIDs(chain, root) IN
    /\ validGeneration(minimum)
    /\ chain.kind = "release-chain"
    /\ validateAuthorityTransitionChainShape(chain)
    /\ parseCanonicalSPKI(root) /\ parseCanonicalSPKI(terminal)
    /\ \A i, j \in DOMAIN path : path[i] = path[j] => i = j
    /\ \A i \in DOMAIN chain.hops :
         VerifyAuthorityTransition(chain.hops[i].envelope, path[i], path[i + 1], 1)
    /\ \A i \in 1..(Len(chain.hops) - 1) : HopGeneration(chain, i) < HopGeneration(chain, i + 1)
    /\ HopGeneration(chain, Len(chain.hops)) >= minimum
    /\ terminal # root
    /\ Last(path) = terminal

BuildAuthorityTransitionChain(hops, root) ==
    LET chain == [kind |-> "release-chain", scope |-> Release, hops |-> hops]
    IN  IF /\ Len(hops) \in MinHops..MaxHops
           /\ VerifyAuthorityTransitionChain(chain, root, hops[Len(hops)].next, 1)
        THEN {chain} ELSE {}
=============================================================================
