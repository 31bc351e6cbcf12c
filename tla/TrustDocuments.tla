--------------------------- MODULE TrustDocuments ---------------------------
(***************************************************************************)
(* internal/attestation's signed documents: the offline trust policy, the  *)
(* one-hop transition of the policy authority and the chain of hops.       *)
(*                                                                         *)
(* A key is a positive number (its key ID; the order is the order of the   *)
(* IDs), NoKey a key that does not parse.  A payload is a record whose     *)
(* kind is "malformed" when it is not the canonical form its schema asks   *)
(* for.  An envelope carries a payload type, the key ID it claims and the  *)
(* key whose signature over exactly that type and payload it really bears  *)
(* (NoKey: none).  A digest is the thing digested.                         *)
(***************************************************************************)
EXTENDS Naturals, Sequences, SequencesExt

CONSTANTS GenerationLimit,  \* MaxTrustPolicyGeneration and MaxGeneration
          KeyLimit,         \* keys a policy may list
          MaxHops           \* hops a chain may have

ASSUME DocumentBounds ==
    /\ GenerationLimit \in Nat \ {0}
    /\ KeyLimit \in Nat \ {0}
    /\ MaxHops \in Nat \ {0, 1}

NoKey == 0
MinHops == 2

validKeyID(key) == key # NoKey
parsePublicKey(key) == key # NoKey
validGeneration(generation) == generation \in 1..GenerationLimit

StrictlyOrdered(keys) == \A i \in 1..(Len(keys) - 1) : keys[i].key < keys[i + 1].key

Listed(policy, key) == \E i \in DOMAIN policy.keys : policy.keys[i].key = key

statusOf(policy, key) ==
    IF Listed(policy, key)
    THEN policy.keys[CHOOSE i \in DOMAIN policy.keys : policy.keys[i].key = key].status
    ELSE "not-listed"

Signed(type, key, payload) ==
    [type |-> type, keyid |-> key, signer |-> key, payload |-> payload]

\* An envelope that the code may use: its type, its one key ID and its
\* signature are all those of the key the caller supplied.
authentic(envelope, type, key) ==
    /\ parsePublicKey(key)
    /\ envelope.type = type
    /\ envelope.keyid = key
    /\ envelope.signer = key

-----------------------------------------------------------------------------
(* The unsigned policy (v1) and the signed one (v2). *)

ParseOfflineTrustPolicy(policy) ==
    /\ policy.kind = "policy-v1"
    /\ Len(policy.keys) \in 1..KeyLimit
    /\ StrictlyOrdered(policy.keys)
    /\ \A i \in DOMAIN policy.keys : /\ validKeyID(policy.keys[i].key)
                                     /\ policy.keys[i].status \in {"trusted", "revoked"}

EvaluateSignerKeyID(policy, signer) ==
    IF validKeyID(signer) THEN statusOf(policy, signer) ELSE "invalid-or-unavailable"

parseOfflineTrustPolicyV2(policy) ==
    /\ policy.kind = "policy"
    /\ validGeneration(policy.generation)
    /\ Len(policy.keys) \in 1..KeyLimit
    /\ StrictlyOrdered(policy.keys)
    /\ \A i \in DOMAIN policy.keys : /\ validKeyID(policy.keys[i].key)
                                     /\ policy.keys[i].status \in {"trusted", "revoked"}

\* The payload is parsed only once the authority's signature is good; an
\* authority that lists itself has two roles.
ParseSignedOfflineTrustPolicy(envelope, authority) ==
    IF ~authentic(envelope, "policy", authority) THEN "invalid"
    ELSE IF ~parseOfflineTrustPolicyV2(envelope.payload) THEN "invalid"
    ELSE IF Listed(envelope.payload, authority) THEN "role-conflict"
    ELSE "ok"

EvaluateSignedSignerKeyID(policy, signer) ==
    IF validKeyID(signer) THEN statusOf(policy, signer) ELSE "invalid-or-unavailable"

VerifySignedOfflineTrustPolicyFloor(policy, minimum) ==
    IF ~validGeneration(minimum) THEN "invalid-or-unavailable"
    ELSE IF policy.generation < minimum THEN "generation-below-minimum"
    ELSE "ok"

VerifySignedOfflineTrustPolicySigner(policy, signer) ==
    EvaluateSignedSignerKeyID(policy, signer)

\* What SignOfflineTrustPolicy asks of its inputs: a sequence of [key, status],
\* each decided, distinct and not the authority; it sorts them itself.
SignOfflineTrustPolicy(generation, keys, authority) ==
    LET sorted == SortSeq(keys, LAMBDA a, b : a.key < b.key)
        payload == [kind |-> "policy", generation |-> generation, keys |-> sorted]
        envelope == Signed("policy", authority, payload)
    IN  IF /\ validGeneration(generation)
           /\ Len(keys) \in 1..KeyLimit
           /\ parsePublicKey(authority)
           /\ \A i \in DOMAIN keys : /\ keys[i].status \in {"trusted", "revoked"}
                                     /\ parsePublicKey(keys[i].key)
                                     /\ keys[i].key # authority
           /\ \A i, j \in DOMAIN keys : keys[i].key = keys[j].key => i = j
           /\ parseOfflineTrustPolicyV2(payload)
           /\ ParseSignedOfflineTrustPolicy(envelope, authority) = "ok"
           /\ \A i \in DOMAIN keys :
                EvaluateSignedSignerKeyID(payload, keys[i].key) = keys[i].status
        THEN {envelope} ELSE {}

-----------------------------------------------------------------------------
(* One hop. *)

validateOfflineTrustPolicyAuthorityTransition(transition) ==
    /\ validGeneration(transition.generation)
    /\ validKeyID(transition.previous)
    /\ validKeyID(transition.next)
    /\ transition.previous # transition.next

ParseOfflineTrustPolicyAuthorityTransitionPayload(transition) ==
    /\ transition.kind = "transition"
    /\ validateOfflineTrustPolicyAuthorityTransition(transition)

ValidateOfflineTrustPolicyAuthorityTransitionKeyPair(previous, next) ==
    parsePublicKey(previous) /\ parsePublicKey(next) /\ previous # next

VerifyOfflineTrustPolicyAuthorityTransition(envelope, previous, next, minimum) ==
    /\ validGeneration(minimum)
    /\ ValidateOfflineTrustPolicyAuthorityTransitionKeyPair(previous, next)
    /\ authentic(envelope, "transition", previous)
    /\ ParseOfflineTrustPolicyAuthorityTransitionPayload(envelope.payload)
    /\ envelope.payload.previous = previous
    /\ envelope.payload.next = next
    /\ envelope.payload.generation >= minimum

SignOfflineTrustPolicyAuthorityTransition(next, generation, previous) ==
    LET payload == [kind |-> "transition", previous |-> previous, next |-> next,
                    generation |-> generation]
        envelope == Signed("transition", previous, payload)
    IN  IF /\ validGeneration(generation)
           /\ ParseOfflineTrustPolicyAuthorityTransitionPayload(payload)
           /\ VerifyOfflineTrustPolicyAuthorityTransition(envelope, previous, next, generation)
        THEN {envelope} ELSE {}

-----------------------------------------------------------------------------
(* The chain: [kind, hops], a hop being [envelope, next]. *)

validateOfflineTrustPolicyAuthorityTransitionChain(chain) ==
    Len(chain.hops) \in MinHops..MaxHops

\* The authorities of a chain from its root to its terminal key.
AuthorityKeyIDs(chain, root) ==
    <<root>> \o [i \in DOMAIN chain.hops |-> chain.hops[i].next]

HopGeneration(chain, i) == chain.hops[i].envelope.payload.generation

\* Mutant: generations along the chain may repeat or fall.
VerifyOfflineTrustPolicyAuthorityTransitionChainAnyOrder(chain, root, terminal, minimum) ==
    LET path == AuthorityKeyIDs(chain, root) IN
    /\ validGeneration(minimum)
    /\ chain.kind = "chain"
    /\ validateOfflineTrustPolicyAuthorityTransitionChain(chain)
    /\ parsePublicKey(root) /\ parsePublicKey(terminal) /\ root # terminal
    /\ \A i, j \in DOMAIN path : path[i] = path[j] => i = j
    /\ \A i \in DOMAIN chain.hops :
         VerifyOfflineTrustPolicyAuthorityTransition(chain.hops[i].envelope, path[i], path[i + 1], 1)
    /\ HopGeneration(chain, Len(chain.hops)) >= minimum
    /\ Last(path) = terminal

\* Every hop is verified with the key the hop before it named, starting at the
\* root; keys never repeat and generations rise.
VerifyOfflineTrustPolicyAuthorityTransitionChain(chain, root, terminal, minimum) ==
    LET path == AuthorityKeyIDs(chain, root) IN
    /\ validGeneration(minimum)
    /\ chain.kind = "chain"
    /\ validateOfflineTrustPolicyAuthorityTransitionChain(chain)
    /\ parsePublicKey(root) /\ parsePublicKey(terminal) /\ root # terminal
    /\ \A i, j \in DOMAIN path : path[i] = path[j] => i = j
    /\ \A i \in DOMAIN chain.hops :
         VerifyOfflineTrustPolicyAuthorityTransition(chain.hops[i].envelope, path[i], path[i + 1], 1)
    /\ \A i \in 1..(Len(chain.hops) - 1) : HopGeneration(chain, i) < HopGeneration(chain, i + 1)
    /\ HopGeneration(chain, Len(chain.hops)) >= minimum
    /\ Last(path) = terminal

BuildOfflineTrustPolicyAuthorityTransitionChain(hops, root) ==
    LET chain == [kind |-> "chain", hops |-> hops]
    IN  IF /\ Len(hops) \in MinHops..MaxHops
           /\ VerifyOfflineTrustPolicyAuthorityTransitionChain(chain, root, hops[Len(hops)].next, 1)
        THEN {chain} ELSE {}
=============================================================================
