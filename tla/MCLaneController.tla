-------------------------- MODULE MCLaneController --------------------------
(* Two producers with one output, and two gates.                            *)
EXTENDS LaneController, TLC

\* At most two flags at once, so that every pair of them meets the order in
\* which a result is judged.
PairedResults == {r \in ProcessResult : Cardinality(r.flags) <= 2}

\* One deviation at a time.
SingleResults ==
    {r \in ProcessResult :
        \/ r.flags = {} /\ r.meets /\ ~r.err
        \/ Cardinality(r.flags) <= 1 /\ r.exit = "zero" /\ r.meets
        \/ r.flags = {"blocked"} /\ r.exit = "none"
        \/ r.flags = {} /\ r.exit = "zero"}

Producers == Permutations(Proc)
=============================================================================
