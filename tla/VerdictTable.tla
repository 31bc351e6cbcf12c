---------------------------- MODULE VerdictTable ----------------------------
(***************************************************************************)
(* The overall status: internal/verification aggregate against the         *)
(* first-match table of spec/status-error-model.md, for every combination  *)
(* of verdicts the domain types allow.                                     *)
(***************************************************************************)
EXTENDS Verification

VARIABLE v      \* a record of verdicts

Verdicts ==
    [functional : {"pass", "fail", "blocked", "inconclusive"},
     capability : {"conforming", "warning", "nonconforming", "incomplete"},
     reproducibility : {"stable", "flaky", "not-reproducible", "not-tested"},
     cleanup : Cleanup,
     evidence : {"none", "unsigned", "self-signed", "maintainer-ci-signed",
                 "public-runner-signed", "enterprise-signed", "tampered", "untrusted-signer"},
     freshness : {"current", "source-changed", "plan-changed", "policy-changed",
                  "runner-changed", "expired"}]

VerdictInit == v \in Verdicts

Kept == v.cleanup \in {"clean", "allowed-residue"}

\* The table's rows: when each applies and what it says.
Rows == <<
    <<v.evidence \in {"tampered", "untrusted-signer"}, "nonconforming">>,
    <<v.freshness # "current", "stale">>,
    <<v.functional = "blocked", "blocked">>,
    <<v.functional = "inconclusive", "inconclusive">>,
    <<v.functional = "fail", "failed">>,
    <<v.capability = "nonconforming" \/ v.cleanup = "undeclared-residue", "nonconforming">>,
    <<\/ v.capability = "incomplete" \/ v.cleanup = "not-tested"
      \/ v.reproducibility \in {"flaky", "not-reproducible"}, "inconclusive">>,
    <<v.functional = "pass" /\ v.capability = "warning" /\ Kept, "verified-with-warnings">>,
    <<v.functional = "pass" /\ v.capability = "conforming" /\ v.cleanup = "allowed-residue",
      "verified-with-warnings">>,
    <<v.functional = "pass" /\ v.capability = "conforming" /\ v.cleanup = "clean"
      /\ (v.reproducibility = "not-tested" \/ v.evidence \in {"none", "unsigned", "self-signed"}),
      "verified-with-warnings">>,
    <<v.functional = "pass" /\ v.capability = "conforming" /\ v.cleanup = "clean", "verified">> >>

\* Exactly as the table says: the code's nested conditions pick the first row
\* that applies, and some row always does.
AggregateFollowsTable ==
    \E i \in DOMAIN Rows :
        /\ Rows[i][1]
        /\ \A j \in 1..(i - 1) : ~Rows[j][1]
        /\ aggregate(v) = Rows[i][2]
=============================================================================
