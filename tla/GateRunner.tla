---------------------------- MODULE GateRunner ----------------------------
(***************************************************************************)
(* The gates of a source-qualification lane (gate_runner.go) and what the  *)
(* receipt validator later demands of their records (receipt_parse.go).    *)
(* A gate record keeps its status, its exit code and whether it has times. *)
(***************************************************************************)
EXTENDS Naturals, FiniteSetsExt

\* An exit code is absent, zero, non-zero, or outside the 32 bits a receipt holds.
Exit == {"none", "zero", "nonzero", "wide"}

Flag == {"cleanup-failed", "overflow", "timed-out", "cancelled", "source-changed", "blocked"}

\* What an executor may report of one process: flags, the exit code, an
\* error of its own, and whether the output meets the gate's predicate.
ProcessResult == [flags : SUBSET Flag, exit : Exit, err : BOOLEAN, meets : BOOLEAN]

NotRun == [status |-> "NOT_RUN", exit |-> "none", timed |-> FALSE]

markGateBindingFailure(status) == [status |-> status, exit |-> "none", timed |-> TRUE]

validGateExitCode(exit) == IF exit = "wide" THEN "none" ELSE exit

\* Mutant: a gate that changed the source is judged by its exit code alone.
evaluateGateResultBlindly(r) ==
    IF r.exit = "zero" /\ r.meets /\ ~r.err
    THEN [status |-> "PASS", exit |-> "zero", err |-> "none"]
    ELSE [status |-> "FAIL", exit |-> validGateExitCode(r.exit), err |-> "GATE_FAILED"]

evaluateGateResult(r) ==
    LET verdict(status, exit, err) == [status |-> status, exit |-> exit, err |-> err]
        exit == validGateExitCode(r.exit)
    IN  IF "cleanup-failed" \in r.flags THEN verdict("FAIL", "none", "CLEANUP_FAILED")
        ELSE IF "overflow" \in r.flags THEN verdict("FAIL", "none", "OUTPUT_LIMIT")
        ELSE IF {"timed-out", "cancelled"} \cap r.flags # {}
             THEN verdict("FAIL", "none", "GATE_FAILED")
        ELSE IF "source-changed" \in r.flags THEN verdict("FAIL", exit, "GATE_FAILED")
        ELSE IF "blocked" \in r.flags
             THEN IF r.exit # "none" THEN verdict("FAIL", "none", "GATE_FAILED")
                  ELSE verdict("BLOCKED", "none", "GATE_BLOCKED")
        ELSE IF exit # "zero" \/ r.err \/ ~r.meets THEN verdict("FAIL", exit, "GATE_FAILED")
        ELSE verdict("PASS", exit, "none")

\* Mutant: the failure is put on the first gate.
markFirstGateCleanupFailure(records) ==
    [records EXCEPT ![1] = markGateBindingFailure("FAIL")]

\* A binding that cannot be released fails the last gate that was started,
\* or the first one when none was.
markLastEvaluatedGateCleanupFailure(records) ==
    LET started == {i \in DOMAIN records : records[i].timed}
    IN  [records EXCEPT ![Max(started \cup {1})] = markGateBindingFailure("FAIL")]

Statuses(records) == {records[i].status : i \in DOMAIN records}

AggregateQualificationStatus(records) ==
    IF "FAIL" \in Statuses(records) THEN "FAIL"
    ELSE IF "BLOCKED" \in Statuses(records) THEN "BLOCKED"
    ELSE IF "NOT_RUN" \in Statuses(records) THEN "NOT_RUN"
    ELSE "PASS"

\* The lane's status: there is a record of every required gate, and the
\* records and the error agree on success.
qualificationLaneGateStatus(records, required, err) ==
    LET status == AggregateQualificationStatus(records)
    IN  IF DOMAIN records # 1..required THEN [status |-> "FAIL", ok |-> FALSE]
        ELSE [status |-> status, ok |-> (status = "PASS") <=> (err = "none")]

validateReceiptGateOutcome(record) ==
    CASE record.status = "PASS" -> record.exit = "zero" /\ record.timed
      [] record.status = "FAIL" -> record.timed
      [] record.status = "BLOCKED" -> record.exit = "none" /\ record.timed
      [] record.status = "NOT_RUN" -> record.exit = "none" /\ ~record.timed

\* After a failed or blocked gate no gate was run.
validateReceiptGates(records) ==
    /\ \A i \in DOMAIN records : validateReceiptGateOutcome(records[i])
    /\ \A i, j \in DOMAIN records :
           i < j /\ records[i].status \in {"FAIL", "BLOCKED"} => records[j].status = "NOT_RUN"

\* The status a failure code stands for (attempt_tombstone.go).
attemptTombstoneStatusForCode(code) ==
    CASE code = "GATE_BLOCKED" -> "BLOCKED"
      [] code = "GATE_NOT_RUN" -> "NOT_RUN"
      [] OTHER -> "FAIL"

\* The public code of a lane's error.
qualificationLaneErrorCode(err, status) ==
    IF err \in {"CLEANUP_FAILED", "OUTPUT_LIMIT", "DESTINATION_EXISTS", "ARCHIVE_INVALID",
               "RECEIPT_INVALID", "SOURCE_DIRTY"} THEN err
    ELSE IF err = "GATE_BLOCKED" \/ status = "BLOCKED" THEN "GATE_BLOCKED"
    ELSE IF err = "GATE_NOT_RUN" \/ status = "NOT_RUN" THEN "GATE_NOT_RUN"
    ELSE IF err = "GATE_FAILED" THEN err
    ELSE "INVALID_INPUT"
=============================================================================
