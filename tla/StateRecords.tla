---------------------------- MODULE StateRecords ----------------------------
(***************************************************************************)
(* What each of the four state packages stores, validates and compares:    *)
(*   truststate          one record per authority key, a generation and    *)
(*                       the digest of the policy authenticated at it;     *)
(*   releasestate        the same for release-key policies, release        *)
(*                       indexes and authority transitions, each of an     *)
(*                       exact (kind, authority, product, channel);        *)
(*   trustrotationstate  one record per trust root that binds an authority *)
(*                       transition and the policy accepted under it;      *)
(*   trustchainstate     the same for a chain of 2..8 transitions, by the  *)
(*                       digest of the whole chain and its hop count.      *)
(***************************************************************************)
EXTENDS MonotonicStore, StateComparison

CONSTANTS
    Digest,         \* digests of authenticated payloads
    MaxGeneration,  \* the largest generation a record may hold (2^53 - 1)
    Key,            \* authority keys
    Channel,        \* product and channel are one axis here
    Envelope        \* digests of signed envelopes

ASSUME GenerationAssumption == MaxGeneration \in Nat

\* Callers may pass any uint64: zero and the first value past the bound stand
\* for all the invalid ones.
Generation == 0..(MaxGeneration + 1)

ValidGeneration(g) == g > 0 /\ g <= MaxGeneration

-----------------------------------------------------------------------------
(* truststate *)

\* A scope is an authority key.
TrustInput == [authority : Scope, generation : Generation, digest : Digest]

TrustScope(v) == v.authority

ValidTrustInput(v) == ValidGeneration(v.generation)

\* What a record file of the package can be decoded to, and all that is
\* written to one: the fields of a valid observation in canonical form.
TrustRecord == {v \in TrustInput : ValidTrustInput(v)}

\* The directories made and validated in turn below the data root; all
\* records of the package share the last one.
TrustDirectory(s) == <<"trust-policy-state", "v1">>

-----------------------------------------------------------------------------
(* releasestate: one-hop transitions and whole chains share a namespace *)

Kind == {"policy", "index", "authority"}

ReleaseScope == [kind : Kind, authority : Key, channel : Channel]

ReleaseInput == [scope : Scope, generation : Generation, digest : Digest]

ReleaseScopeOf(v) == v.scope

ValidReleaseInput(v) == ValidGeneration(v.generation)

\* A record file holds a valid value of one kind, in canonical form.
ReleaseRecord == {v \in ReleaseInput : ValidReleaseInput(v)}

\* The directories made and validated in turn: each kind has one of its own.
ReleaseDirectory(s) == <<"release-state", "v1", s.kind>>

-----------------------------------------------------------------------------
(* trustrotationstate and trustchainstate: two generations, compared and *)
(* committed together *)

\* An already-authenticated Observation; its trust root is the scope.
RotationInput ==
    [root : Scope,
     transitionGeneration : Generation,
     transitionDigest : Digest,
     envelope : Envelope,
     terminal : Key,
     policyGeneration : Generation,
     policyDigest : Digest]

RotationScope(v) == v.root

ValidRotation(v) ==
    /\ ValidGeneration(v.transitionGeneration)
    /\ v.root # v.terminal
    /\ ValidGeneration(v.policyGeneration)

\* validRecord asks of a record what validObservation asks of an observation.
RotationRecord == {v \in RotationInput : ValidRotation(v)}

RotationDirectory(s) == <<"trust-policy-state", "v1", "rotated">>

\* Hop counts 1 and 9 stand for the ones outside 2..8, 2 and 8 for those inside.
ChainInput ==
    [root : Scope,
     chainGeneration : Generation,
     chainDigest : Digest,
     hopCount : {1, 2, 8, 9},
     terminal : Key,
     policyGeneration : Generation,
     policyDigest : Digest]

ChainScope(v) == v.root

ValidChain(v) ==
    /\ ValidGeneration(v.chainGeneration)
    /\ v.hopCount >= 2 /\ v.hopCount <= 8
    /\ v.root # v.terminal
    /\ ValidGeneration(v.policyGeneration)

ChainRecord == {v \in ChainInput : ValidChain(v)}

ChainDirectory(s) == <<"trust-policy-state", "v1", "rotation-chain">>
=============================================================================
