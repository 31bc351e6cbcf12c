----------------------------- MODULE MCOffline -----------------------------
(***************************************************************************)
(* Scripts for OfflineCommands.  Documents are drawn from pools that hold  *)
(* the genuine ones and the near misses: another signer, another type, a   *)
(* stale or a missing generation, an authority that lists itself, a hop    *)
(* out of order, members of two bundles put together.                      *)
(*                                                                         *)
(* Keys: 1 is the root, 2 and 3 its successors, 4 signs bundles and        *)
(* indexes, 5 is somebody else.                                            *)
(***************************************************************************)
EXTENDS OfflineCommands

\* Path 4 is the lock the snapshot leaves out, or one artifact too many; path
\* 6 is in directory 0, which a walk comes to before the files of the root.
MCPaths == {1, 2, 3, 4, 6}
MCWithin == [p \in MCPaths |-> IF p = 6 THEN 0 ELSE 9]
MCRuleset == 1

InitialTree ==
    [p \in MCPaths |->
        IF p \in {4, 6} THEN Absent
        ELSE [kind |-> "file", edit |-> 0,
              lists |-> IF p = SumsFile THEN {[path |-> q, edit |-> 0] : q \in {2, 3}} ELSE {}]]

\* The snapshot of a tree that stays as it is.
SnapshotTree(tree) ==
    LET listed == sorted[UNION {InDirectory(tree, d) : d \in Directories}]
    IN  [i \in DOMAIN listed |-> EntryOf(tree, listed[i])]

InitialSnapshot == SnapshotTree(InitialTree)

Later == [InitialTree EXCEPT ![2] = Written(InitialTree, 2, 1)]

Trusts(keys) == [i \in DOMAIN keys |-> [key |-> keys[i], status |-> "trusted"]]

-----------------------------------------------------------------------------
(* Bundles. *)

ResultOf(id, tree, wants) ==
    [id |-> id, sealed |-> TRUE, wantsSBOM |-> wants, clean |-> TRUE,
     source |-> [identity |-> tree, commit |-> "none", tree |-> tree],
     plan |-> PlanOf([edit |-> 0, lists |-> InitialTree[1].lists], [tree |-> tree]),
     runner |-> [comparable |-> TRUE, digest |-> 1]]

Plain == ResultOf(1, InitialSnapshot, FALSE)
Other == ResultOf(2, InitialSnapshot, FALSE)
WithSBOM == ResultOf(3, InitialSnapshot, TRUE)

Supplied == [form |-> "supplied", inputs |-> [tree |-> <<>>, files |-> {}], clean |-> TRUE]

DerivationOf(tree) == Derivation([tree |-> tree, commit |-> "none", identity |-> tree])

Only(set) == CHOOSE x \in set : TRUE

PlainBundle == Only(BuildWithSPDX(Plain, {}, 4))
OtherBundle == Only(BuildWithSPDX(Other, {}, 5))
SBOMBundle == Only(BuildWithSPDX(WithSBOM, {Supplied}, 4))
DerivedBundle ==
    Only(BuildWithDerivedSPDX(WithSBOM, DerivationOf(InitialSnapshot).sbom,
                              DerivationOf(InitialSnapshot).provenance, 4))

\* Every mix of the members of two bundles of one layout.
Mixes(a, b) ==
    {[i \in DOMAIN a |-> IF i \in from THEN b[i] ELSE a[i]] : from \in SUBSET DOMAIN a}

Bundles ==
    Mixes(PlainBundle, OtherBundle)
    \cup {SBOMBundle, DerivedBundle, Append(PlainBundle, PlainBundle[1]), Tail(DerivedBundle),
          Reverse(PlainBundle),
          [SBOMBundle EXCEPT ![4].data = DerivationOf(InitialSnapshot).sbom],
          [DerivedBundle EXCEPT ![5].data = DerivationOf(SnapshotTree(Later)).provenance]}

-----------------------------------------------------------------------------
(* verify-attestation. *)

PolicyPayload(generation, keys) ==
    [kind |-> "policy", generation |-> generation, keys |-> keys]

\* The envelopes an authority might have signed, and what others did.
PolicyEnvelopes(authority) ==
    {Signed("policy", authority, PolicyPayload(g, Trusts(k))) :
        g \in 0..4, k \in {<<4>>, <<5>>, <<4, 5>>}}
    \cup {Signed("policy", authority, PolicyPayload(2, keys)) :
            keys \in {<<>>, <<[key |-> 4, status |-> "revoked"]>>, Trusts(<<5, 4>>), Trusts(<<4, 4>>),
                      Trusts(<<1, 4>>), Trusts(<<2, 4>>), Trusts(<<3, 4>>), Trusts(<<0, 4>>),
                      Trusts(<<1, 4, 5>>), <<[key |-> 4, status |-> "undecided"]>>}}
    \cup {[Signed("policy", authority, PolicyPayload(2, Trusts(<<4>>))) EXCEPT !.signer = 5],
          [Signed("policy", authority, PolicyPayload(2, Trusts(<<4>>))) EXCEPT !.keyid = 5],
          Signed("policy", 5, PolicyPayload(2, Trusts(<<4>>))),
          Signed("release-policy", authority, PolicyPayload(2, Trusts(<<4>>))),
          Signed("policy", authority, [PolicyPayload(2, Trusts(<<4>>)) EXCEPT !.kind = "malformed"])}

SomePolicies(authority) ==
    {Signed("policy", authority, PolicyPayload(2, Trusts(k))) : k \in {<<4>>, <<5>>, <<1, 4>>, <<2, 4>>}}
    \cup {[Signed("policy", authority, PolicyPayload(2, Trusts(<<4>>))) EXCEPT !.signer = 5]}

TransitionPayload(previous, next, generation) ==
    [kind |-> "transition", previous |-> previous, next |-> next, generation |-> generation]

Hop(previous, next, generation) ==
    [envelope |-> Signed("transition", previous, TransitionPayload(previous, next, generation)),
     next |-> next]

Transitions ==
    {Hop(p, n, g).envelope : p \in {1, 2}, n \in {1, 2, 3}, g \in 0..4}
    \cup {[Hop(1, 2, 2).envelope EXCEPT !.signer = 5], [Hop(1, 2, 2).envelope EXCEPT !.keyid = 5],
          [Hop(1, 2, 2).envelope EXCEPT !.type = "release-transition"],
          Signed("transition", 1, TransitionPayload(2, 3, 2))}

Chains ==
    {[kind |-> "chain", hops |-> hops] : hops \in
        {<<Hop(1, 2, 1)>>, <<Hop(1, 2, 1), Hop(2, 3, 2), Hop(3, 5, 3)>>,
         <<Hop(1, 2, 1), Hop(2, 1, 2)>>, <<Hop(1, 2, 1), Hop(1, 3, 2)>>,
         <<[Hop(1, 2, 1) EXCEPT !.next = 3], Hop(3, 2, 2)>>,
         <<[Hop(1, 2, 1) EXCEPT !.envelope.signer = 5], Hop(2, 3, 2)>>}
        \cup {<<Hop(1, 2, g), Hop(2, 3, h)>> : g \in 0..3, h \in 1..4}}
    \cup {[kind |-> "malformed", hops |-> <<Hop(1, 2, 1), Hop(2, 3, 2)>>]}

NoEnvelope == Signed("none", 0, [kind |-> "none"])
NoChain == [kind |-> "none", hops |-> <<>>]

Attestation ==
    [op |-> "verify-attestation", bundle |-> PlainBundle, pin |-> {}, mode |-> "none",
     policy |-> NoEnvelope, policyPin |-> {}, authority |-> 0, root |-> 0,
     transition |-> NoEnvelope, chain |-> NoChain, minimum |-> 1, minimumAuthority |-> 1,
     persist |-> FALSE, current |-> FALSE, commit |-> "none"]

DirectChecks ==
    {[Attestation EXCEPT !.mode = m, !.bundle = b, !.authority = 4] : m \in {"none", "key"}, b \in Bundles}
    \cup {[Attestation EXCEPT !.mode = "key", !.authority = k, !.pin = pin] :
            k \in 0..5, pin \in {{}, {PlainBundle}, {OtherBundle}}}
    \cup {[Attestation EXCEPT !.mode = "policy-v1", !.policyPin = {pinned},
                              !.policy = [kind |-> kind, keys |-> Trusts(keys)]] :
            kind \in {"policy-v1", "malformed"},
            keys \in {<<4>>, <<5>>, <<4, 5>>, <<5, 4>>, <<0, 4>>, <<1, 4, 5>>},
            pinned \in {[kind |-> "policy-v1", keys |-> Trusts(k)] : k \in {<<4>>, <<5, 4>>, <<0, 4>>, <<1, 4, 5>>}}}
    \cup {[Attestation EXCEPT !.mode = "signed", !.policy = e, !.authority = k, !.minimum = m] :
            e \in PolicyEnvelopes(2), k \in {0, 2, 5}, m \in 0..3}

RotatedChecks ==
    {[Attestation EXCEPT !.mode = "rotated", !.policy = e, !.transition = t, !.root = r, !.authority = a] :
        e \in SomePolicies(2), t \in Transitions, r \in {1, 2}, a \in {2, 3}}
    \cup {[Attestation EXCEPT !.mode = "rotated", !.policy = e, !.transition = Hop(1, 2, 2).envelope,
                              !.root = 1, !.authority = 2, !.minimum = m, !.minimumAuthority = n] :
            e \in PolicyEnvelopes(2), m \in 0..3, n \in 1..3}

ChainedChecks ==
    {[Attestation EXCEPT !.mode = "chained", !.policy = e, !.chain = chain, !.root = r, !.authority = a,
                         !.minimumAuthority = n] :
        e \in SomePolicies(3), chain \in Chains, r \in {1, 2}, a \in {3, 5}, n \in 0..3}

-----------------------------------------------------------------------------
(* verify-release-index. *)

Files == ArtifactsOf(InitialTree)

IndexPayload(generation, files) ==
    [kind |-> "index", scope |-> Release, generation |-> generation, files |-> files]

ReleasePolicyPayload(generation, keys) ==
    [kind |-> "release-policy", scope |-> Release, generation |-> generation, keys |-> keys]

ReleaseHop(previous, next, generation) ==
    [envelope |-> Signed("release-transition", previous,
                         [kind |-> "release-transition", scope |-> Release, previous |-> previous,
                          next |-> next, generation |-> generation]),
     next |-> next]

ReleaseChain(hops) == [kind |-> "release-chain", scope |-> Release, hops |-> hops]

ReleaseCheck(index, policy) ==
    [op |-> "verify-release-index", index |-> index, pin |-> {}, envelope |-> Signed("index", 4, index),
     signer |-> 4, mode |-> "direct", root |-> 0, authority |-> 2, transition |-> NoEnvelope,
     chain |-> NoChain, policy |-> policy, minimum |-> 1, minimumAuthority |-> 1, minimumRelease |-> 1,
     persist |-> FALSE]

GoodIndex == IndexPayload(2, Files)
GoodPolicy(authority) == Signed("release-policy", authority, ReleasePolicyPayload(2, Trusts(<<4>>)))
GoodCheck == ReleaseCheck(GoodIndex, GoodPolicy(2))

Indexes ==
    {IndexPayload(g, Files) : g \in 0..4}
    \cup {IndexPayload(2, Tail(Files)), IndexPayload(2, Reverse(Files)), IndexPayload(2, <<Files[1], Files[2]>>),
          [GoodIndex EXCEPT !.scope = "other"], [GoodIndex EXCEPT !.kind = "malformed"]}

ReleasePolicies ==
    {Signed("release-policy", 2, ReleasePolicyPayload(g, Trusts(keys))) :
        g \in 0..4, keys \in {<<4>>, <<5>>, <<2, 4>>, <<4, 4>>, <<>>}}
    \cup {Signed("release-policy", 2, ReleasePolicyPayload(2, <<[key |-> 4, status |-> "revoked"]>>)),
          [GoodPolicy(2) EXCEPT !.signer = 5], [GoodPolicy(2) EXCEPT !.keyid = 5],
          [GoodPolicy(2) EXCEPT !.type = "policy"], GoodPolicy(5),
          Signed("release-policy", 2, [ReleasePolicyPayload(2, Trusts(<<4>>)) EXCEPT !.scope = "other"])}

ReleaseChecks ==
    {[ReleaseCheck(i, GoodPolicy(2)) EXCEPT !.minimumRelease = m] : i \in Indexes, m \in 0..3}
    \cup {[ReleaseCheck(GoodIndex, e) EXCEPT !.minimum = m] : e \in ReleasePolicies, m \in 0..3}
    \cup {[GoodCheck EXCEPT !.pin = {IndexPayload(g, Files)}] : g \in {1, 2}}
    \cup {[GoodCheck EXCEPT !.envelope = e, !.signer = k] :
            k \in {0, 2, 4}, e \in {Signed("index", 2, GoodIndex), Signed("policy", 4, GoodIndex),
                                   Signed("index", 4, IndexPayload(3, Files)),
                                   [Signed("index", 4, GoodIndex) EXCEPT !.signer = 5]}}
    \cup {[GoodCheck EXCEPT !.mode = "rotated", !.root = r, !.transition = t, !.minimumAuthority = n] :
            r \in {0, 1, 2}, n \in 0..2,
            t \in {ReleaseHop(1, 2, 1).envelope, ReleaseHop(1, 2, 2).envelope, ReleaseHop(1, 3, 2).envelope,
                   ReleaseHop(2, 1, 2).envelope, [ReleaseHop(1, 2, 2).envelope EXCEPT !.signer = 5],
                   Hop(1, 2, 2).envelope, [ReleaseHop(1, 2, 2).envelope EXCEPT !.payload.scope = "other"]}}
    \cup {[GoodCheck EXCEPT !.mode = "chained", !.root = 1, !.authority = 3, !.policy = GoodPolicy(3),
                            !.chain = [ReleaseChain(<<ReleaseHop(1, 2, 1), ReleaseHop(2, 3, 2)>>)
                                         EXCEPT !.scope = "other"]]}
    \cup {[GoodCheck EXCEPT !.mode = "chained", !.root = r, !.authority = 3, !.policy = GoodPolicy(3),
                            !.chain = ReleaseChain(hops), !.minimumAuthority = n] :
            r \in {1, 2}, n \in {1, 2, 3},
            hops \in {<<ReleaseHop(1, 2, 1), ReleaseHop(2, 3, 2)>>, <<ReleaseHop(1, 2, 2), ReleaseHop(2, 3, 2)>>,
                      <<ReleaseHop(1, 2, 1), ReleaseHop(1, 3, 2)>>, <<ReleaseHop(1, 3, 2)>>,
                      <<ReleaseHop(1, 3, 1), ReleaseHop(3, 2, 2)>>}}

-----------------------------------------------------------------------------
(* Issuing. *)

IssueOf(what) ==
    [op |-> "issue", what |-> what, key |-> 1, next |-> 2, generation |-> 2, keys |-> <<>>,
     hops |-> <<>>, payload |-> [kind |-> "none"]]

IssueChecks ==
    {[IssueOf("policy") EXCEPT !.key = k, !.generation = g, !.keys = keys] :
        k \in 0..2, g \in {0, 1, 4},
        keys \in {<<>>, Trusts(<<5, 4>>), Trusts(<<4, 4>>), Trusts(<<1, 4>>),
                  <<[key |-> 4, status |-> "undecided"]>>}}
    \cup {[IssueOf(w) EXCEPT !.key = k, !.next = n, !.generation = g] :
            w \in {"transition", "release-transition"}, k \in 0..2, n \in 0..2, g \in {0, 1, 4}}
    \cup {[IssueOf("chain") EXCEPT !.hops = chain.hops] : chain \in Chains}
    \cup {[IssueOf("release-chain") EXCEPT !.hops = hops] :
            hops \in {<<ReleaseHop(1, 2, 1), ReleaseHop(2, 3, 2)>>, <<ReleaseHop(1, 2, 2), ReleaseHop(2, 3, 2)>>,
                      <<ReleaseHop(1, 2, 1)>>}}
    \cup {[IssueOf("release-policy") EXCEPT !.key = k, !.payload = e.payload] :
            k \in {0, 2}, e \in ReleasePolicies}

AttestOf(result_, evidence, sbom, key) ==
    [op |-> "attest", result |-> result_, evidence |-> evidence, sbom |-> sbom, key |-> key, commit |-> "none"]

AttestChecks ==
    {AttestOf(r, "none", {}, k) : r \in {Plain, WithSBOM, [Plain EXCEPT !.sealed = FALSE],
                                        [Plain EXCEPT !.clean = FALSE]}, k \in {0, 4}}
    \cup {AttestOf(WithSBOM, "supplied", {s}, 4) :
            s \in {Supplied, [Supplied EXCEPT !.clean = FALSE], DerivationOf(InitialSnapshot).sbom}}

-----------------------------------------------------------------------------
(* Scripts. *)

ScriptOf(commands, count, editable) ==
    [commands |-> commands, tree |-> InitialTree, edits |-> count, editable |-> editable]

\* One command on an undisturbed machine.
Singles ==
    {ScriptOf(<<c>>, 0, {}) :
        c \in DirectChecks \cup RotatedChecks \cup ChainedChecks \cup ReleaseChecks}
    \cup {ScriptOf(<<c>>, 0, {}) : c \in IssueChecks} \cup {ScriptOf(<<c>>, 0, {}) : c \in AttestChecks}

\* Two commands that keep state, on documents of two generations that agree or not.
Policies2(authority) ==
    {Signed("policy", authority, PolicyPayload(g, Trusts(k))) : g \in {1, 2}, k \in {<<4>>, <<4, 5>>}}

StateChecks ==
    LET Persist == [Attestation EXCEPT !.persist = TRUE] IN
    << {[Persist EXCEPT !.mode = "signed", !.authority = 2, !.policy = e] : e \in Policies2(2)},
       {[Persist EXCEPT !.mode = "rotated", !.root = 1, !.authority = a, !.transition = Hop(1, a, g).envelope,
                        !.policy = Signed("policy", a, PolicyPayload(h, Trusts(<<4>>)))] :
            a \in {2, 3}, g \in {1, 2}, h \in {1, 2}},
       {[Persist EXCEPT !.mode = "chained", !.root = 1, !.authority = 3,
                        !.chain = [kind |-> "chain", hops |-> <<Hop(1, m, 1), Hop(m, 3, g)>>],
                        !.policy = Signed("policy", 3, PolicyPayload(h, Trusts(<<4>>)))] :
            m \in {2, 5}, g \in {2, 3}, h \in {1, 2}},
       {[ReleaseCheck(IndexPayload(g, Files), GoodPolicy(2)) EXCEPT !.persist = TRUE, !.mode = "rotated",
            !.root = 1, !.transition = ReleaseHop(1, 2, h).envelope] : g \in {1, 2}, h \in {1, 2}} >>

Pairs ==
    {ScriptOf(<<c, d>>, 0, {}) : c \in StateChecks[1], d \in StateChecks[1]}
    \cup {ScriptOf(<<c, d>>, 0, {}) : c \in StateChecks[2], d \in StateChecks[2]}
    \cup {ScriptOf(<<c, d>>, 0, {}) : c \in StateChecks[3], d \in StateChecks[3]}

ReleasePairs ==
    {ScriptOf(<<c, d>>, 0, {}) : c \in StateChecks[4], d \in StateChecks[4]}

\* A command at work while the directory is edited.
Current(bundle) ==
    [Attestation EXCEPT !.mode = "key", !.authority = 4, !.bundle = bundle, !.current = TRUE]

StaleBundle == Only(BuildWithSPDX(ResultOf(1, SnapshotTree(Later), FALSE), {}, 4))

\* The same tree, but another plan of it.
OtherPlanBundle ==
    Only(BuildWithSPDX([Plain EXCEPT !.plan = PlanOf([edit |-> 2, lists |-> {}], [tree |-> InitialSnapshot])],
                       {}, 4))

\* A file of the root and one of a directory come and go.
Nested == [InitialTree EXCEPT ![6] = Written(InitialTree, 6, 0)]

Comings ==
    {[ScriptOf(<<Current(StaleBundle)>>, 3, {3, 6}) EXCEPT !.tree = t] : t \in {InitialTree, Nested}}

Edited ==
    {ScriptOf(<<Current(b)>>, 2, {1, 2}) : b \in {PlainBundle, DerivedBundle, StaleBundle, OtherPlanBundle}}
    \cup {ScriptOf(<<c>>, 0, {}) : c \in
            {[Current(PlainBundle) EXCEPT !.commit = "c1"],
             [Current(PlainBundle) EXCEPT !.mode = "signed", !.authority = 2, !.policy = Only(Policies2(2))]}}
    \cup {ScriptOf(<<c>>, 1, {4}) : c \in {Current(PlainBundle)}}
    \cup {ScriptOf(<<c>>, 1, {4}) : c \in {[op |-> "sign-release-index", key |-> 4, generation |-> 1]}}
    \cup {ScriptOf(<<AttestOf(WithSBOM, "derived", {}, 4)>>, 2, {2, 3})}
    \cup {ScriptOf(<<[op |-> "sign-release-index", key |-> 4, generation |-> 1]>>, 2, {1, 2})}
    \cup {ScriptOf(<<[ReleaseCheck(IndexPayload(2, files), GoodPolicy(2)) EXCEPT !.persist = TRUE,
                        !.mode = "chained", !.root = 1, !.authority = 3, !.policy = GoodPolicy(3),
                        !.chain = ReleaseChain(<<ReleaseHop(1, 2, 1), ReleaseHop(2, 3, 2)>>)]>>, 2, {1, 2}) :
            files \in {Files, ArtifactsOf([Later EXCEPT ![1] = Written(Later, 1, 2)])}}

MCScripts == Singles \cup Pairs \cup ReleasePairs \cup Edited \cup Comings
=============================================================================
