--------------------------- MODULE MCStateStores ---------------------------
(***************************************************************************)
(* Small instances of the state packages: one run observes authority       *)
(* rotations, where two generations advance together, and one observes     *)
(* release policies and indexes, whose records lie in two directories.     *)
(* MonotonicStore_proofs shows that all four packages' comparisons are         *)
(* instances of what MonotonicStore assumes.                               *)
(***************************************************************************)
EXTENDS StateRecords, TLC

CONSTANTS root, successor, d1, d2

\* The second digest conflicts with the first at generations (2, 1); a root
\* that rotates to itself is invalid.
Rotations ==
    {v \in [root : Scope, transitionGeneration : 1..2, transitionDigest : {d1, d2},
            envelope : Envelope, terminal : Key,
            policyGeneration : 1..2, policyDigest : {d1}] :
        /\ v.transitionDigest = d1 \/ (v.transitionGeneration = 2 /\ v.policyGeneration = 1)
        /\ v.terminal = successor \/ (v.transitionGeneration = 1 /\ v.policyGeneration = 1)}

Processes == Permutations(Proc)

PolicyAndIndex == {s \in ReleaseScope : s.kind \in {"policy", "index"}}

\* A policy advances; the index is there for its directory.
Releases == {v \in [scope : Scope, generation : 1..2, digest : {d1}] :
                v.scope.kind = "policy" \/ v.generation = 1}

\* The values enumerated are some of those the packages are proved about, and
\* their records are those the package can decode.
ASSUME InstanceAssumption ==
    \/ Rotations \subseteq RotationInput /\ Record \subseteq RotationRecord
    \/ Releases \subseteq ReleaseInput /\ Record \subseteq ReleaseRecord
=============================================================================
